---- MODULE Spec2Model ----
(***************************************************************************)
(* Model of the BlackRoad Terraform module registry                        *)
(* (src/terraform_modules.py).                                             *)
(*                                                                         *)
(* Text (a template, a value, a rendered result) is a sequence of tokens.  *)
(* A token is one character ("$", "{", "}", " ", "\n", ...) or a word that *)
(* the texts of this model never split ("resource", "var.", a variable     *)
(* name, a literal).  The placeholder ${var.a} is the five tokens          *)
(* "$" "{" "var." "a" "}", so that the brace counts of validate_hcl and    *)
(* the substring replacement of generate_tf see what the code sees.        *)
(*                                                                         *)
(* The store is the modules table of the SQLite file: a set of rows.       *)
(* Every public method opens its own connection per statement, so a        *)
(* method is a sequence of atomic steps, one per SQL statement, and the    *)
(* steps of concurrent callers interleave.                                 *)
(***************************************************************************)
EXTENDS Integers, Sequences, FiniteSets, TLC

----------------------------------------------------------------------------
(* Text helpers: str.count, str.replace, str.strip, str.splitlines,        *)
(* str.split as Python computes them.                                      *)

WS == {" ", "\n"}

RECURSIVE Count(_, _)
Count(s, c) ==
    IF s = <<>> THEN 0
    ELSE (IF Head(s) = c THEN 1 ELSE 0) + Count(Tail(s), c)

MatchAt(s, old, i) ==
    /\ i + Len(old) - 1 <= Len(s)
    /\ SubSeq(s, i, i + Len(old) - 1) = old

RECURSIVE ReplaceFrom(_, _, _, _)
ReplaceFrom(s, old, new, i) ==
    IF i > Len(s) THEN <<>>
    ELSE IF MatchAt(s, old, i)
         THEN new \o ReplaceFrom(s, old, new, i + Len(old))
         ELSE <<s[i]>> \o ReplaceFrom(s, old, new, i + 1)

\* a faulty variant of Replace: str.replace(old, new, 1), the first
\* occurrence only
ReplaceFirst(s, old, new) ==
    IF \E i \in 1..Len(s) : MatchAt(s, old, i)
    THEN LET i == CHOOSE k \in 1..Len(s) :
                    MatchAt(s, old, k) /\ \A j \in 1..(k - 1) : ~ MatchAt(s, old, j)
         IN  SubSeq(s, 1, i - 1) \o new \o SubSeq(s, i + Len(old), Len(s))
    ELSE s

\* str.replace(old, new): leftmost, non-overlapping occurrences.
Replace(s, old, new) == ReplaceFrom(s, old, new, 1)

Contains(s, sub) == \E i \in 1..Len(s) : MatchAt(s, sub, i)

RECURSIVE LStrip(_)
LStrip(s) == IF s # <<>> /\ Head(s) \in WS THEN LStrip(Tail(s)) ELSE s

RECURSIVE RStrip(_)
RStrip(s) ==
    IF s # <<>> /\ s[Len(s)] \in WS THEN RStrip(SubSeq(s, 1, Len(s) - 1)) ELSE s

Strip(s) == RStrip(LStrip(s))

\* str.splitlines(): the lines between "\n" tokens, no empty last line.
RECURSIVE SplitLines(_, _)
SplitLines(s, cur) ==
    IF s = <<>> THEN (IF cur = <<>> THEN <<>> ELSE <<cur>>)
    ELSE IF Head(s) = "\n" THEN <<cur>> \o SplitLines(Tail(s), <<>>)
    ELSE SplitLines(Tail(s), Append(cur, Head(s)))

\* len(str.split()): the number of maximal runs of non-whitespace tokens.
RECURSIVE NumParts(_, _)
NumParts(s, inPart) ==
    IF s = <<>> THEN 0
    ELSE IF Head(s) \in WS THEN NumParts(Tail(s), FALSE)
    ELSE (IF inPart THEN 0 ELSE 1) + NumParts(Tail(s), TRUE)

----------------------------------------------------------------------------
(* Values of a variable's default and of the caller's mapping: a tag and   *)
(* the payload as text.  str(val) and the JSON conversions of _save and    *)
(* _row_to_module are per-tag mappings.                                    *)

PyStrVal(s)  == [t |-> "str",  v |-> s]
PyIntVal(d)  == [t |-> "int",  v |-> <<d>>]
PyTrue       == [t |-> "bool", v |-> <<"True">>]
PyFalse      == [t |-> "bool", v |-> <<"False">>]
PyNone       == [t |-> "none", v |-> <<>>]
\* a list of numbers, the payload its elements
PyIntList(ds) == [t |-> "list", v |-> ds]

\* the text of ", ".join of the elements
RECURSIVE CommaJoin(_)
CommaJoin(ds) ==
    IF ds = <<>> THEN <<>>
    ELSE IF Len(ds) = 1 THEN ds
    ELSE <<Head(ds), ",", " ">> \o CommaJoin(Tail(ds))

\* str(val) of generate_tf
PyStr(val) ==
    CASE val.t = "str"  -> val.v
      [] val.t = "int"  -> val.v
      [] val.t = "bool" -> val.v
      [] val.t = "none" -> <<"None">>
      [] val.t = "list" -> <<"[">> \o CommaJoin(val.v) \o <<"]">>

\* json.dumps of one value: Python type -> JSON type
JsonDumpsValue(val) ==
    CASE val.t = "str"  -> [j |-> "string", v |-> val.v]
      [] val.t = "int"  -> [j |-> "number", v |-> val.v]
      [] val.t = "bool" -> [j |-> IF val.v = <<"True">> THEN "true" ELSE "false",
                            v |-> <<>>]
      [] val.t = "none" -> [j |-> "null", v |-> <<>>]
      [] val.t = "list" -> [j |-> "array", v |-> val.v]

\* a faulty variant of JsonLoadsValue: a number comes back as a string
JsonLoadsValueAsText(js) ==
    CASE js.j \in {"string", "number"} -> [t |-> "str", v |-> js.v]
      [] js.j = "true"   -> PyTrue
      [] js.j = "false"  -> PyFalse
      [] js.j = "null"   -> PyNone
      [] js.j = "array"  -> [t |-> "list", v |-> js.v]

\* json.loads of one value: JSON type -> Python type
JsonLoadsValue(js) ==
    CASE js.j = "string" -> [t |-> "str", v |-> js.v]
      [] js.j = "number" -> [t |-> "int", v |-> js.v]
      [] js.j = "true"   -> PyTrue
      [] js.j = "false"  -> PyFalse
      [] js.j = "null"   -> PyNone
      [] js.j = "array"  -> [t |-> "list", v |-> js.v]

JsonBool(b) == [j |-> IF b THEN "true" ELSE "false", v |-> <<>>]

\* asdict(v) then json.dumps, for a TerraformVariable
DumpVariable(v) ==
    [name        |-> [j |-> "string", v |-> <<v.name>>],
     type        |-> [j |-> "string", v |-> <<v.type>>],
     description |-> [j |-> "string", v |-> <<v.description>>],
     default     |-> JsonDumpsValue(v.default),
     required    |-> JsonBool(v.required),
     sensitive   |-> JsonBool(v.sensitive)]

\* json.loads then TerraformVariable(**r)
LoadVariable(o) ==
    [name        |-> o.name.v[1],
     type        |-> o.type.v[1],
     description |-> o.description.v[1],
     default     |-> JsonLoadsValue(o.default),
     required    |-> (o.required.j = "true"),
     sensitive   |-> (o.sensitive.j = "true")]

\* asdict(o) then json.dumps, for a TerraformOutput
DumpOutput(o) ==
    [name             |-> [j |-> "string", v |-> <<o.name>>],
     description      |-> [j |-> "string", v |-> <<o.description>>],
     value_expression |-> [j |-> "string", v |-> o.value_expression],
     sensitive        |-> JsonBool(o.sensitive)]

LoadOutput(o) ==
    [name             |-> o.name.v[1],
     description      |-> o.description.v[1],
     value_expression |-> o.value_expression.v,
     sensitive        |-> (o.sensitive.j = "true")]

MapSeq(Op(_), s) == [i \in 1..Len(s) |-> Op(s[i])]

----------------------------------------------------------------------------
(* validate_hcl                                                            *)

Err(msg, line) == [msg |-> msg, line |-> line]

\* the word tokens that str.startswith("resource") accepts
ResourcePrefixed == {"resource", "resources"}

\* a faulty variant of BadResourceLines: asks for five parts
BadResourceLinesFive(hcl) ==
    SelectSeq(MapSeq(Strip, SplitLines(hcl, <<>>)),
              LAMBDA l : l # <<>> /\ Head(l) \in ResourcePrefixed
                         /\ NumParts(l, FALSE) < 5)

\* the stripped lines that start with "resource" and split into < 3 parts
BadResourceLines(hcl) ==
    SelectSeq(MapSeq(Strip, SplitLines(hcl, <<>>)),
              LAMBDA l : l # <<>> /\ Head(l) \in ResourcePrefixed
                         /\ NumParts(l, FALSE) < 3)

\* a faulty variant of HclErrors: brackets are checked before braces, and
\* only the text without any character counts as empty
HclErrorsSlips(hcl) ==
    (IF Count(hcl, "[") # Count(hcl, "]")
       THEN <<Err("Unbalanced square brackets [ ]", <<>>)>> ELSE <<>>)
    \o (IF Count(hcl, "{") # Count(hcl, "}")
       THEN <<Err("Unbalanced curly braces { }", <<>>)>> ELSE <<>>)
    \o (IF Count(hcl, "(") # Count(hcl, ")")
       THEN <<Err("Unbalanced parentheses ( )", <<>>)>> ELSE <<>>)
    \o MapSeq(LAMBDA l : Err("resource block missing labels", l),
              BadResourceLines(hcl))
    \o (IF hcl = <<>>
       THEN <<Err("HCL string is empty", <<>>)>> ELSE <<>>)

HclErrors(hcl) ==
    (IF Count(hcl, "{") # Count(hcl, "}")
       THEN <<Err("Unbalanced curly braces { }", <<>>)>> ELSE <<>>)
    \o (IF Count(hcl, "[") # Count(hcl, "]")
       THEN <<Err("Unbalanced square brackets [ ]", <<>>)>> ELSE <<>>)
    \o (IF Count(hcl, "(") # Count(hcl, ")")
       THEN <<Err("Unbalanced parentheses ( )", <<>>)>> ELSE <<>>)
    \o MapSeq(LAMBDA l : Err("resource block missing labels", l),
              BadResourceLines(hcl))
    \o (IF Strip(hcl) = <<>>
       THEN <<Err("HCL string is empty", <<>>)>> ELSE <<>>)

\* tokens that are not word characters (\w) at their end
NonWordToks ==
    WS \cup {"$", "{", "}", "[", "]", "(", ")", "\"", "=", ".", ",", "-", "var."}

BlockKeywords == {"resource", "data", "module", "locals", "provider", "terraform"}

\* a quoted label "[\w-]+" starts at token i
LabelAt(hcl, i) ==
    /\ i <= Len(hcl) /\ hcl[i] = "\""
    /\ \E e \in (i + 2)..Len(hcl) :
        /\ hcl[e] = "\""
        /\ \A k \in (i + 1)..(e - 1) : hcl[k] \notin NonWordToks \/ hcl[k] = "-"

\* block_pattern.search: \b(resource|data|...)\s+"[\w-]+"\s*
HasBlock(hcl) ==
    \E i \in 1..Len(hcl) :
        /\ hcl[i] \in BlockKeywords
        /\ (i = 1 \/ hcl[i - 1] \in NonWordToks)
        /\ \E j \in (i + 2)..Len(hcl) :
            /\ \A k \in (i + 1)..(j - 1) : hcl[k] \in WS
            /\ LabelAt(hcl, j)

\* the lookahead (?!var\.|local\.|module\.|data\.|each\.|path\.|terraform\.)
NamespaceAt(hcl, i) ==
    /\ i <= Len(hcl)
    /\ \/ hcl[i] = "var."
       \/ /\ hcl[i] \in {"local", "module", "data", "each", "path", "terraform"}
          /\ i + 1 <= Len(hcl) /\ hcl[i + 1] = "."

\* the end of a match of \$\{(?!...)[^}]+\} that starts at i, 0 if none
BadRefEnd(hcl, i) ==
    IF /\ i + 3 <= Len(hcl) /\ hcl[i] = "$" /\ hcl[i + 1] = "{"
       /\ ~ NamespaceAt(hcl, i + 2) /\ hcl[i + 2] # "}"
       /\ \E e \in (i + 3)..Len(hcl) : hcl[e] = "}"
    THEN CHOOSE e \in (i + 3)..Len(hcl) :
            hcl[e] = "}" /\ \A k \in (i + 3)..(e - 1) : hcl[k] # "}"
    ELSE 0

\* re.findall of the suspicious interpolations, left to right
RECURSIVE BadRefs(_, _)
BadRefs(hcl, i) ==
    IF i > Len(hcl) THEN <<>>
    ELSE IF BadRefEnd(hcl, i) # 0
         THEN <<SubSeq(hcl, i, BadRefEnd(hcl, i))>> \o BadRefs(hcl, BadRefEnd(hcl, i) + 1)
         ELSE BadRefs(hcl, i + 1)

HclWarnings(hcl) ==
    (IF ~ HasBlock(hcl)
       THEN <<Err("No resource/data/module block found", <<>>)>> ELSE <<>>)
    \o MapSeq(LAMBDA br : Err("Suspicious interpolation", br), BadRefs(hcl, 1))
    \o (IF Contains(hcl, <<"$", "$", "{">>)
       THEN <<Err("Found $${}", <<>>)>> ELSE <<>>)

\* a faulty variant of validate_hcl: a warning makes the text invalid
validate_hclStrict(hcl) ==
    LET errors == HclErrors(hcl)
    IN  [valid    |-> Len(errors) = 0 /\ Len(HclWarnings(hcl)) = 0,
         errors   |-> errors,
         warnings |-> HclWarnings(hcl)]

NoValidation == [valid |-> FALSE, errors |-> <<>>, warnings |-> <<>>]

validate_hcl(hcl) ==
    LET errors == HclErrors(hcl)
    IN  [valid    |-> Len(errors) = 0,
         errors   |-> errors,
         warnings |-> HclWarnings(hcl)]

\* vr.valid of validate_hcl(hcl), as register_module reads it (line 237)
HclValid(hcl) == Len(HclErrors(hcl)) = 0

----------------------------------------------------------------------------
(* generate_tf, the part that computes: the missing names, the merged      *)
(* table (an insertion-ordered dict: a sequence of entries with distinct   *)
(* keys), the substitution loop.                                           *)

Entry(k, val) == [k |-> k, val |-> val]

DictKeys(d) == {d[i].k : i \in 1..Len(d)}

\* d[k] = val on an insertion-ordered dict
DictSet(d, k, val) ==
    IF k \in DictKeys(d)
    THEN [i \in 1..Len(d) |-> IF d[i].k = k THEN Entry(k, val) ELSE d[i]]
    ELSE Append(d, Entry(k, val))

DictGet(d, k) == d[CHOOSE i \in 1..Len(d) : d[i].k = k].val

\* a faulty variant of Missing: a sensitive variable is never asked for
MissingNotSensitive(variables, vars) ==
    MapSeq(LAMBDA v : v.name,
           SelectSeq(variables,
                     LAMBDA v : v.required /\ v.default.t = "none"
                                /\ ~ v.sensitive
                                /\ v.name \notin DictKeys(vars)))

\* a faulty variant of Missing: stops at the first missing name
MissingFirstOnly(variables, vars) ==
    LET all == SelectSeq(variables,
                   LAMBDA v : v.required /\ v.default.t = "none"
                              /\ v.name \notin DictKeys(vars))
    IN  IF all = <<>> THEN <<>> ELSE <<all[1].name>>

\* missing = [v.name for v in mod.variables
\*            if v.required and v.default is None and v.name not in vars]
Missing(variables, vars) ==
    MapSeq(LAMBDA v : v.name,
           SelectSeq(variables,
                     LAMBDA v : v.required /\ v.default.t = "none"
                                /\ v.name \notin DictKeys(vars)))

RECURSIVE MergeDefaults(_, _)
MergeDefaults(variables, merged) ==
    IF variables = <<>> THEN merged
    ELSE MergeDefaults(Tail(variables),
            IF Head(variables).default.t # "none"
            THEN DictSet(merged, Head(variables).name, Head(variables).default)
            ELSE merged)

RECURSIVE DictUpdate(_, _)
DictUpdate(merged, vars) ==
    IF vars = <<>> THEN merged
    ELSE DictUpdate(DictSet(merged, Head(vars).k, Head(vars).val), Tail(vars))

Merged(variables, vars) == DictUpdate(MergeDefaults(variables, <<>>), vars)

Placeholder(k) == <<"$", "{", "var.", k, "}">>

\* for k, val in merged.items(): result = result.replace(placeholder, str(val))
RECURSIVE Substitute(_, _)
Substitute(result, merged) ==
    IF merged = <<>> THEN result
    ELSE Substitute(Replace(result, Placeholder(Head(merged).k),
                            PyStr(Head(merged).val)),
                    Tail(merged))

Render(mod, vars) == Substitute(mod.hcl_template, Merged(mod.variables, vars))

----------------------------------------------------------------------------
(* export_plan, the part that computes: the header, the resource blocks    *)
(* the regular expression finds in the rendered text, the summary.         *)

\* the end of the longest run of tokens s[i], s[i+1], ... that satisfy Ok
\* (i - 1 when s[i] does not)
RECURSIVE RunEnd(_, _, _)
RunEnd(s, i, ok) ==
    IF i <= Len(s) /\ s[i] \in ok THEN RunEnd(s, i + 1, ok) ELSE i - 1

\* the tokens of the texts of this model that are made of \w characters
WordToks(s) == {s[k] : k \in 1..Len(s)} \ NonWordToks

\* "([\w]+)" or "([\w-]+)" at i: the index of the closing quote, 0 if none
QuotedEnd(s, i, hyphen) ==
    LET e == RunEnd(s, i + 1, WordToks(s) \cup (IF hyphen THEN {"-"} ELSE {}))
    IN  IF i <= Len(s) /\ s[i] = "\"" /\ e >= i + 1
           /\ e + 1 <= Len(s) /\ s[e + 1] = "\""
        THEN e + 1 ELSE 0

NoMatch == [end |-> 0, rtype |-> <<>>, rname |-> <<>>, rbody |-> <<>>]

\* \{([^}]*)\} from the brace at open: the match, if the text has a "}" after
MatchBody(s, w1, q1, w2, q2, open) ==
    LET close == RunEnd(s, open + 1, {s[k] : k \in 1..Len(s)} \ {"}"}) + 1
    IN  IF open <= Len(s) /\ s[open] = "{" /\ close <= Len(s)
        THEN [end |-> close,
              rtype |-> SubSeq(s, w1 + 2, q1 - 1),
              rname |-> SubSeq(s, w2 + 2, q2 - 1),
              rbody |-> SubSeq(s, open + 1, close - 1)]
        ELSE NoMatch

\* \s+"([\w-]+)"\s* after the first label, which ends at q1
MatchName(s, w1, q1, w2) ==
    IF w2 < q1 + 1 \/ QuotedEnd(s, w2 + 1, TRUE) = 0 THEN NoMatch
    ELSE MatchBody(s, w1, q1, w2, QuotedEnd(s, w2 + 1, TRUE),
                   RunEnd(s, QuotedEnd(s, w2 + 1, TRUE) + 1, WS) + 1)

\* \s+"([\w]+)" after the keyword at i; w1 is where its whitespace ends
MatchType(s, i, w1) ==
    IF w1 < i + 1 \/ QuotedEnd(s, w1 + 1, FALSE) = 0 THEN NoMatch
    ELSE MatchName(s, w1, QuotedEnd(s, w1 + 1, FALSE),
                   RunEnd(s, QuotedEnd(s, w1 + 1, FALSE) + 1, WS))

\* resource_re matched at i:
\* resource\s+"([\w]+)"\s+"([\w-]+)"\s*\{([^}]*)\}
ResourceMatchAt(s, i) ==
    IF i <= Len(s) /\ s[i] = "resource"
    THEN MatchType(s, i, RunEnd(s, i + 1, WS))
    ELSE NoMatch

\* a faulty variant of FindResources: stops after the first match
FindResourcesFirstOnly(s, i) ==
    LET starts == {k \in i..Len(s) : ResourceMatchAt(s, k).end # 0}
    IN  IF starts = {} THEN <<>>
        ELSE <<ResourceMatchAt(s, CHOOSE k \in starts : \A j \in starts : k <= j)>>

\* list(resource_re.finditer(rendered)): leftmost matches that do not overlap
RECURSIVE FindResources(_, _)
FindResources(s, i) ==
    IF i > Len(s) THEN <<>>
    ELSE IF s[i] # "resource" THEN FindResources(s, i + 1)
    ELSE LET m == ResourceMatchAt(s, i)
         IN  IF m.end # 0
             THEN <<m>> \o FindResources(s, m.end + 1)
             ELSE FindResources(s, i + 1)

\* str(n) for the counts of this model
DecimalText == <<"1", "2", "3", "4", "5", "6", "7", "8", "9">>

StrOfCount(n) == IF n = 0 THEN "0" ELSE DecimalText[n]

\* the lines export_plan writes for one match (lines 373-377)
MatchLines(m) ==
    <<(<<"  + resource \"">> \o m.rtype \o <<"\" \"">> \o m.rname \o <<"\" {">>)>>
    \o MapSeq(LAMBDA l : <<"      ">> \o Strip(l), SplitLines(Strip(m.rbody), <<>>))
    \o << <<"  }">>, <<>> >>

RECURSIVE AllMatchLines(_)
AllMatchLines(ms) ==
    IF ms = <<>> THEN <<>> ELSE MatchLines(Head(ms)) \o AllMatchLines(Tail(ms))

SummaryTail == " to add, 0 to change, 0 to destroy."

NoResourceNotice == "# (no resource blocks detected in rendered template)"

\* lines 350-383: the lines of the plan, matches being the blocks found
PlanLinesOf(m, rendered, ts, matches) ==
        << <<"# Terraform Plan Export">>,
           <<"# Module  : ", m.name, " v">> \o m.version,
           <<"# Provider : ", m.provider>>,
           <<"# Generated: ", ts>>,
           <<"#">>,
           <<"# This plan shows what Terraform would create/modify.">>,
           <<"# Review carefully before applying.">>,
           <<>>,
           <<"# -- Resource: ", m.resource_type, " --">>,
           <<>> >>
        \o (IF matches # <<>>
            THEN << <<"Changes to be applied:">>, <<>> >>
                 \o AllMatchLines(matches)
                 \o << <<"Plan: ", StrOfCount(Len(matches)), SummaryTail>> >>
            ELSE << <<NoResourceNotice>>, <<>>, rendered >>)
        \o << <<>>, <<"# -- Rendered HCL --">>, <<>>, rendered >>

PlanLines(m, rendered, ts) ==
    PlanLinesOf(m, rendered, ts, FindResources(rendered, 1))

\* "\n".join(lines)
RECURSIVE JoinLines(_)
JoinLines(lines) ==
    IF lines = <<>> THEN <<>>
    ELSE IF Len(lines) = 1 THEN lines[1]
    ELSE lines[1] \o <<"\n">> \o JoinLines(Tail(lines))

\* the text export_plan returns for the module m of its header, the text
\* generate_tf rendered and the time of the call
PlanText(m, rendered, ts) == JoinLines(PlanLines(m, rendered, ts))


----------------------------------------------------------------------------
(* Inputs: the providers, templates, variable lists and value mappings the *)
(* callers of this model pass.                                             *)

PROVIDERS == {"aws", "gcp", "azure", "kubernetes", "helm", "null"}

Var(name, type, default, required, sensitive) ==
    [name |-> name, type |-> type, description |-> "d", default |-> default,
     required |-> required, sensitive |-> sensitive]

Out(name, expr) ==
    [name |-> name, description |-> "d", value_expression |-> expr,
     sensitive |-> FALSE]

\* resource "t" "${var.a}" { ${var.b} ${var.c} }
TplResource ==
    <<"resource", " ", "\"", "t", "\"", " ", "\"">> \o Placeholder("a")
    \o <<"\"", " ", "{", " ">> \o Placeholder("b") \o <<" ">>
    \o Placeholder("c") \o <<" ", "}">>

\* ${var.a}=${var.b}
TplPair == Placeholder("a") \o <<"=">> \o Placeholder("b")

\* resource "t" "n" {        (one brace more than closed)
TplUnbalanced == <<"resource", " ", "\"", "t", "\"", " ", "\"", "n", "\"", " ", "{">>

\* a required without default, b optional with a default, c optional without
VarsABC ==
    <<Var("a", "string", PyNone, TRUE, FALSE),
      Var("b", "string", PyStrVal(<<"dflt">>), FALSE, TRUE),
      Var("c", "string", PyNone, FALSE, FALSE)>>

\* a and b required without default, c required with a number default,
\* d optional with a bool default, e optional with a list default
VarsReq ==
    <<Var("a", "string", PyNone, TRUE, FALSE),
      Var("b", "bool", PyNone, TRUE, FALSE),
      Var("c", "number", PyIntVal("20"), TRUE, FALSE),
      Var("d", "bool", PyTrue, FALSE, TRUE),
      Var("e", "list(number)", PyIntList(<<"1", "2">>), FALSE, FALSE)>>

\* two variables of the one name a: required without default, then optional
\* with a default
VarsDup ==
    <<Var("a", "string", PyNone, TRUE, FALSE),
      Var("a", "string", PyStrVal(<<"dflt">>), FALSE, FALSE)>>

Outs == <<Out("o", <<"t", ".", "id">>)>>

RegArgs(provider, tpl, variables, description, tags) ==
    [provider |-> provider, resource_type |-> "t", hcl_template |-> tpl,
     variables |-> variables, outputs |-> Outs,
     version |-> <<"1", ".", "0", ".", "0">>,
     description |-> description, tags |-> tags]

\* the description "Net" and the tags "a-b" and "Core", as characters
DescNet == <<"N", "e", "t">>

TagsTwo == << <<"a", "-", "b">>, <<"C", "o", "r", "e">> >>

\* what register_module is called with, the name apart
RegInputs ==
    {RegArgs("aws", TplResource, VarsABC, DescNet, TagsTwo),
     [RegArgs("gcp", TplPair, VarsReq, <<>>, <<>>) EXCEPT !.resource_type = "s"],
     RegArgs("kubernetes", TplPair, VarsDup, <<>>, <<>>),
     RegArgs("oracle", TplResource, VarsABC, DescNet, TagsTwo),
     RegArgs("aws", TplUnbalanced, VarsABC, DescNet, TagsTwo)}

\* the caller's mapping of generate_tf and export_plan: an ordered dict
VarMaps ==
    {<<>>,
     <<Entry("a", PyStrVal(<<"x">>)), Entry("b", PyTrue)>>,
     <<Entry("a", PyStrVal(Placeholder("c"))), Entry("c", PyStrVal(<<"z">>))>>}

\* resource "a-b" "n" { }        (a hyphen in the type label)
TplHyphenType ==
    <<"resource", " ", "\"", "a", "-", "b", "\"", " ", "\"", "n", "\"", " ",
      "{", " ", "}">>

\* resource "t" "n" { x }
BlockPiece ==
    <<"resource", " ", "\"", "t", "\"", " ", "\"", "n", "\"", " ",
      "{", " ", "x", " ", "}">>

\* the texts a caller starts from
SeedTexts == {<<>>, TplResource, TplUnbalanced, TplHyphenType, BlockPiece}

\* what a caller extends a text by
Pieces ==
    {<<"{">>, <<"}">>, <<"[">>, <<"]">>, <<"(">>, <<")">>, <<" ">>, <<"\n">>,
     <<"resource">>, <<"resources">>, <<"\"", "t", "\"">>,
     <<"$", "{", "foo", "}">>, <<"$", "$", "{", "x", "}">>, BlockPiece}

MaxPieces == 2

\* a filter of list_modules: None or a string
NoFilter == [t |-> "none", v |-> ""]

StrFilter(x) == [t |-> "str", v |-> x]

\* the filters list_modules is called with
ProviderFilters == {NoFilter, StrFilter(""), StrFilter("aws")}

ResourceFilters == {NoFilter, StrFilter("t")}

\* the queries of search: NET, a_s, z
Queries == {<<"N", "E", "T">>, <<"a", "_", "s">>, <<"z">>}

\* the texts validate_hcl is called with on the registry
ValidateInputs == {<<>>, BlockPiece}

\* uuid4(): the ids this model generates, in order
IdSeq == <<"u1", "u2", "u3">>

PlainNames == {"m"}

UnknownRef == "zz"

Procs == {"p1", "p2"}

MaxCalls == 3


----------------------------------------------------------------------------
(* State                                                                   *)

VARIABLES
    db,       \* the rows of the modules table
    nextId,   \* how many ids uuid4() has generated
    calls,    \* how many public calls have started
    pc,       \* per caller: "idle", or the step its call is at
    call,     \* per caller: the call it makes or made last, with arguments
    mod,      \* per caller: the local mod of its call
    hdr,      \* per caller: export_plan's own mod (line 347)
    ret,      \* per caller: what its last call returned or raised
    renders,  \* per id: how many generate_tf calls returned text for it
    known,    \* the ids register_module has returned: what callers can know
    txt,      \* a text handed to validate_hcl or rendered for export_plan
    npieces,  \* how many pieces txt was extended by
    obj,      \* a TerraformModule object in the caller's hands
    res,      \* what the last call on txt or obj returned
    seed      \* per caller: the built-in module its constructor is at, 0 if none

\* the state of the registry and of its callers
regVars == <<db, nextId, calls, pc, call, mod, hdr, ret, renders, known>>

\* the state of the calls that touch no store
pureVars == <<txt, npieces, obj, res>>

vars == <<db, nextId, calls, pc, call, mod, hdr, ret, renders, known,
          txt, npieces, obj, res, seed>>

Ids == {IdSeq[i] : i \in 1..Len(IdSeq)}

\* uuid4() is unpredictable: a caller can pass an id, as a reference or as
\* the name of a new module, only once register_module has returned it
Names == PlainNames \cup known

Refs == Names \cup {UnknownRef}

\* a TerraformModule object (lines 86-100); created_at is the rank of its
\* construction among the constructions, standing for the time of it
NoMod ==
    [id |-> "", name |-> "", provider |-> "", resource_type |-> "",
     version |-> <<>>, description |-> <<>>, hcl_template |-> <<>>,
     variables |-> <<>>, outputs |-> <<>>, examples |-> <<>>, tags |-> <<>>,
     created_at |-> 0, download_count |-> 0]

NoArgs == RegArgs("", <<>>, <<>>, <<>>, <<>>)

\* a call: the operation, the module reference, the arguments of
\* register_module, the mapping of generate_tf, and q: the filters of
\* list_modules, the query of search or the text of validate_hcl
Call(op, ref, args, vm) ==
    [op |-> op, ref |-> ref, args |-> args, vars |-> vm, q |-> <<>>]

NoCall == Call("none", "", NoArgs, <<>>)

CallQ(op, q) == [NoCall EXCEPT !.op = op, !.q = q]

\* what a call returned or raised: a text, the names of an error, a module,
\* a list of modules or of most_downloaded entries, the total and the
\* per-provider counts of get_stats, a ValidationResult
Ret(kind, text, names, m) ==
    [kind |-> kind, text |-> text, names |-> names, mod |-> m,
     list |-> <<>>, total |-> 0, by_provider |-> {}, vr |-> NoValidation]

NoRet == Ret("none", <<>>, <<>>, NoMod)

RetList(kind, list) == [NoRet EXCEPT !.kind = kind, !.list = list]

Raise(kind) == Ret(kind, <<>>, <<>>, NoMod)

\* json.dumps(mod.tags): the text ["a-b", "Core"] of a list of strings
\* that need no escape
RECURSIVE JsonDumpsStrings(_)
JsonDumpsStrings(list) ==
    IF list = <<>> THEN <<"[", "]">>
    ELSE IF Len(list) = 1 THEN <<"[", "\"">> \o list[1] \o <<"\"", "]">>
    ELSE <<"[", "\"">> \o list[1] \o <<"\"", ",", " ">>
            \o Tail(JsonDumpsStrings(Tail(list)))

\* json.loads of that text: the strings between the quotes
RECURSIVE JsonLoadsStrings(_, _, _)
JsonLoadsStrings(text, cur, inString) ==
    IF text = <<>> THEN <<>>
    ELSE IF Head(text) = "\""
         THEN (IF inString THEN <<cur>> ELSE <<>>)
                \o JsonLoadsStrings(Tail(text), <<>>, ~ inString)
         ELSE JsonLoadsStrings(Tail(text),
                               IF inString THEN Append(cur, Head(text)) ELSE cur,
                               inString)

\* the row _save writes for mod (lines 209-217)
ModuleToRow(m) ==
    [m EXCEPT !.variables = MapSeq(DumpVariable, m.variables),
              !.outputs = MapSeq(DumpOutput, m.outputs),
              !.tags = JsonDumpsStrings(m.tags)]

\* _row_to_module
RowToModule(row) ==
    [row EXCEPT !.variables = MapSeq(LoadVariable, row.variables),
                !.outputs = MapSeq(LoadOutput, row.outputs),
                !.tags = JsonLoadsStrings(row.tags, <<>>, FALSE)]

\* SELECT * FROM modules WHERE id = ? OR name = ?   (the rows fetchone picks from)
Matching(rows, ref) == {r \in rows : r.id = ref \/ r.name = ref}

\* a faulty variant of NameConflict: the index on name is not unique
NameConflictNoIndex(rows, m) == FALSE

\* CREATE UNIQUE INDEX idx_name ON modules(name): the insert or update of m
\* is refused when another row has its name
NameConflict(rows, m) == \E r \in rows : r.id # m.id /\ r.name = m.name

\* INSERT ... ON CONFLICT(id) DO UPDATE SET ...  (created_at is not in the SET)
Upsert(rows, m) == {r \in rows : r.id # m.id} \cup {ModuleToRow(m)}

\* a faulty variant of IncrementDownloads: read-modify-write from the loaded module
IncrementDownloadsStale(rows, m) ==
    {IF r.id = m.id THEN [r EXCEPT !.download_count = m.download_count + 1] ELSE r
        : r \in rows}

\* a faulty variant of IncrementDownloads: WHERE id = ? OR name = ?
IncrementDownloadsByName(rows, m) ==
    {IF r.id = m.id \/ r.name = m.id
     THEN [r EXCEPT !.download_count = @ + 1] ELSE r : r \in rows}

\* UPDATE modules SET download_count = download_count + 1 WHERE id = ?
IncrementDownloads(rows, m) ==
    {IF r.id = m.id THEN [r EXCEPT !.download_count = @ + 1] ELSE r : r \in rows}

\* DELETE FROM modules WHERE id = ?
DeleteRow(rows, m) == {r \in rows : r.id # m.id}

----------------------------------------------------------------------------
(* list_modules, search and get_stats: what their SELECT statements return *)
(* on a set of rows.                                                       *)

\* the characters of the words this model keeps whole
Chars(w) ==
    CASE w = ""    -> <<>>
      [] w = "aws" -> <<"a", "w", "s">>
      [] w = "gcp" -> <<"g", "c", "p">>
      [] w = "u1"  -> <<"u", "1">>
      [] w = "u2"  -> <<"u", "2">>
      [] w = "u3"  -> <<"u", "3">>
      [] w = "u4"  -> <<"u", "4">>
      [] OTHER     -> <<w>>

\* str.lower() and SQLite's lower() on the letters of this model (ASCII)
LowerChar(c) ==
    CASE c = "N" -> "n" [] c = "E" -> "e" [] c = "T" -> "t" [] c = "C" -> "c"
      [] OTHER -> c

Lower(text) == [k \in 1..Len(text) |-> LowerChar(text[k])]

\* text LIKE pattern: % is any run of characters, _ any one character
RECURSIVE Like(_, _)
Like(text, pattern) ==
    IF pattern = <<>> THEN text = <<>>
    ELSE IF Head(pattern) = "%"
         THEN \/ Like(text, Tail(pattern))
              \/ text # <<>> /\ Like(Tail(text), pattern)
         ELSE /\ text # <<>>
              /\ Head(pattern) = "_" \/ LowerChar(Head(pattern)) = LowerChar(Head(text))
              /\ Like(Tail(text), Tail(pattern))

\* the WHERE clause of search (lines 396-402); tags is the stored JSON text
SearchMatches(row, query) ==
    LET q == <<"%">> \o Lower(query) \o <<"%">>
    IN  \/ Like(Lower(Chars(row.name)), q)
        \/ Like(Lower(row.description), q)
        \/ Like(Lower(Chars(row.provider)), q)
        \/ Like(Lower(Chars(row.resource_type)), q)
        \/ Like(Lower(row.tags), q)

\* the names of this model in the order of SQLite's BINARY collation
NameOrder == <<"k", "m", "n", "u1", "u2", "u3", "u4">>

NameRank(name) == CHOOSE k \in 1..Len(NameOrder) : NameOrder[k] = name

\* a faulty variant of ListBefore: equal counts are ordered by descending name
ListBeforeNameDesc(r1, r2) ==
    \/ r1.download_count > r2.download_count
    \/ /\ r1.download_count = r2.download_count
       /\ NameRank(r1.name) > NameRank(r2.name)

\* ORDER BY download_count DESC, name ASC: r1 comes before r2
ListBefore(r1, r2) ==
    \/ r1.download_count > r2.download_count
    \/ /\ r1.download_count = r2.download_count
       /\ NameRank(r1.name) < NameRank(r2.name)

\* the rows of a set in the order ORDER BY download_count DESC, name ASC
RECURSIVE SortRows(_)
SortRows(rows) ==
    IF rows = {} THEN <<>>
    ELSE LET first == CHOOSE r \in rows : \A o \in rows \ {r} : ListBefore(r, o)
         IN  <<first>> \o SortRows(rows \ {first})

\* if provider_filter: / if resource_type_filter:   (a string is true unless empty)
Truthy(f) == f.t = "str" /\ f.v # ""

\* the rows the SELECT of list_modules returns (lines 323-333)
ListRows(rows, pf, rf) ==
    SortRows({r \in rows :
                /\ Truthy(pf) => r.provider = pf.v
                /\ Truthy(rf) => r.resource_type = rf.v})

\* the sequences that hold each row of a set once, download_count never
\* rising: the orders ORDER BY download_count DESC allows
DescendingOrders(rows) ==
    {o \in [1..Cardinality(rows) -> rows] :
        /\ \A i, j \in 1..Cardinality(rows) : i # j => o[i] # o[j]
        /\ \A i \in 1..(Cardinality(rows) - 1) :
                o[i].download_count >= o[i + 1].download_count}

\* LIMIT 5 of get_stats
TopLimit == 5

FirstN(seq, n) == SubSeq(seq, 1, IF Len(seq) < n THEN Len(seq) ELSE n)

\* SELECT provider, COUNT(*) ... GROUP BY provider, as provider/count pairs
ByProvider(rows) ==
    {<<pr, Cardinality({r \in rows : r.provider = pr})>> :
        pr \in {r.provider : r \in rows}}

\* one entry of most_downloaded (line 421)
TopEntry(row) ==
    [name |-> row.name, provider |-> row.provider, downloads |-> row.download_count]

----------------------------------------------------------------------------
(* generate_docs: the Markdown text for a module (lines 428-463)           *)

\* one row of the variables table (lines 441-444)
DocsVariableLine(v) ==
    <<"| '", v.name, "' | '", v.type, "' | ",
      IF v.required THEN "yes" ELSE "no", " | ",
      IF v.sensitive THEN "lock" ELSE "-", " | ">>
    \o (IF v.default.t # "none" THEN <<"'">> \o PyStr(v.default) \o <<"'">>
        ELSE <<"-">>)
    \o <<" | ", v.description, " |">>

\* one row of the outputs table (lines 447-448)
DocsOutputLine(o) ==
    <<"| '", o.name, "' | ", IF o.sensitive THEN "lock" ELSE "-", " | ",
      o.description, " |">>

\* ", ".join(f"'{t}'" for t in mod.tags)
RECURSIVE DocsTags(_)
DocsTags(tags) ==
    IF tags = <<>> THEN <<>>
    ELSE IF Len(tags) = 1 THEN <<"'">> \o tags[1] \o <<"'">>
    ELSE <<"'">> \o tags[1] \o <<"'", ",", " ">> \o DocsTags(Tail(tags))

DocsLines(m) ==
    << <<"# ", m.name>>, <<>>,
       <<"> **Provider:** '", m.provider, "' | **Resource:** '", m.resource_type,
         "' | **Version:** '">> \o m.version \o <<"'">>,
       <<>>, m.description, <<>>,
       <<"## Variables">>, <<>>,
       <<"| Name | Type | Required | Sensitive | Default | Description |">>,
       <<"| ---- | ---- | :------: | :-------: | ------- | ----------- |">> >>
    \o MapSeq(DocsVariableLine, m.variables)
    \o << <<>>, <<"## Outputs">>, <<>>,
          <<"| Name | Sensitive | Description |">>,
          <<"| ---- | :-------: | ----------- |">> >>
    \o MapSeq(DocsOutputLine, m.outputs)
    \o << <<>>, <<"## HCL Template">>, <<>>, <<"~~~hcl">>, m.hcl_template,
          <<"~~~">>, <<>> >>
    \o (IF m.tags # <<>>
        THEN << <<"## Tags">>, <<>>, DocsTags(m.tags), <<>> >> ELSE <<>>)
    \o << <<"## Metadata">>, <<>>,
          <<"- **ID:** '", m.id, "'">>,
          <<"- **Created:** ", StrOfCount(m.created_at)>>,
          <<"- **Downloads:** ", StrOfCount(m.download_count)>> >>

\* The registry objects exist (_init_db has created the table and the
\* indexes) and the store holds no module: the store of a registry whose
\* modules have been deleted.
InitRegistry ==
    /\ db = {}
    /\ nextId = 0
    /\ calls = 0
    /\ pc = [p \in Procs |-> "idle"]
    /\ call = [p \in Procs |-> NoCall]
    /\ mod = [p \in Procs |-> NoMod]
    /\ hdr = [p \in Procs |-> NoMod]
    /\ ret = [p \in Procs |-> NoRet]
    /\ renders = [i \in Ids |-> 0]
    /\ known = {}
    /\ seed = [p \in Procs |-> 0]

\* what a call on a text returned: the plan and the text it was written
\* from, or the ValidationResult
Res(kind, text, rendered, vr) ==
    [kind |-> kind, text |-> text, rendered |-> rendered, vr |-> vr]

NoRes == Res("none", <<>>, <<>>, NoValidation)

\* no text and no module object are in any caller's hands
InitPure ==
    /\ txt = <<>>
    /\ npieces = 0
    /\ obj = NoMod
    /\ res = NoRes

Init == InitRegistry /\ InitPure

\* a caller starts a public call
Start(p, c) ==
    /\ pc[p] = "idle"
    /\ calls < MaxCalls
    /\ calls' = calls + 1
    /\ call' = [call EXCEPT ![p] = c]

\* get_module(ref) as the first statement of a method: mod = the row, or KeyError
GetInto(p, ref, next, onMissing) ==
    IF Matching(db, ref) = {}
    THEN /\ pc' = [pc EXCEPT ![p] = "idle"]
         /\ ret' = [ret EXCEPT ![p] = onMissing]
         /\ mod' = [mod EXCEPT ![p] = NoMod]
    ELSE \E row \in Matching(db, ref) :
         /\ pc' = [pc EXCEPT ![p] = next]
         /\ ret' = [ret EXCEPT ![p] = NoRet]
         /\ mod' = [mod EXCEPT ![p] = RowToModule(row)]

\* a faulty variant of RegistrationError: the provider is not checked
RegistrationErrorNoProvider(a) ==
    IF ~ HclValid(a.hcl_template)
    THEN "ValueError: Invalid HCL template"
    ELSE ""

\* the checks of register_module (lines 234-238): the error raised, "" if none
RegistrationError(a) ==
    IF a.provider \notin PROVIDERS
    THEN "ValueError: Unknown provider"
    ELSE IF ~ HclValid(a.hcl_template)
    THEN "ValueError: Invalid HCL template"
    ELSE ""

\* RegistrationError over the inputs of this model, computed once
RegistrationErrors == [a \in RegInputs |-> RegistrationError(a)]

\* the TerraformModule register_module constructs (lines 239-251), the n-th
\* of this registry
NewModule(name, a, n) ==
    [id |-> IdSeq[n], name |-> name,
     provider |-> a.provider, resource_type |-> a.resource_type,
     version |-> a.version, description |-> a.description,
     hcl_template |-> a.hcl_template,
     variables |-> a.variables, outputs |-> a.outputs,
     examples |-> <<>>, tags |-> a.tags,
     created_at |-> n, download_count |-> 0]

\* register_module up to the construction of mod (lines 234-251)
RegisterModule(p) ==
    \E name \in Names, a \in RegInputs :
    /\ Start(p, Call("register_module", name, a, <<>>))
    /\ hdr' = [hdr EXCEPT ![p] = NoMod]
    /\ UNCHANGED <<db, renders, known>>
    /\ UNCHANGED pureVars
    /\ UNCHANGED seed
    /\ IF RegistrationErrors[a] # ""
       THEN /\ ret' = [ret EXCEPT ![p] = Raise(RegistrationErrors[a])]
            /\ mod' = [mod EXCEPT ![p] = NoMod]
            /\ UNCHANGED <<pc, nextId>>
       ELSE /\ nextId < Len(IdSeq)
            /\ nextId' = nextId + 1
            /\ mod' = [mod EXCEPT ![p] = NewModule(name, a, nextId + 1)]
            /\ ret' = [ret EXCEPT ![p] = NoRet]
            /\ pc' = [pc EXCEPT ![p] = "save"]

\* self._save(mod); return mod (lines 252-253, 195-217)
Save(p) ==
    /\ pc[p] = "save"
    /\ pc' = [pc EXCEPT ![p] = "idle"]
    /\ IF NameConflict(db, mod[p])
       THEN /\ ret' = [ret EXCEPT ![p] = Raise("IntegrityError")]
            /\ UNCHANGED <<db, known>>
       ELSE /\ db' = Upsert(db, mod[p])
            /\ ret' = [ret EXCEPT ![p] = Ret("module", <<>>, <<>>, mod[p])]
            /\ known' = known \cup {mod[p].id}
    /\ UNCHANGED <<nextId, calls, call, mod, hdr, renders>>
    /\ UNCHANGED pureVars
    /\ UNCHANGED seed

\* get_module as a public call (lines 336-344)
GetModule(p) ==
    \E ref \in Refs :
    /\ Start(p, Call("get_module", ref, NoArgs, <<>>))
    /\ IF Matching(db, ref) = {}
       THEN ret' = [ret EXCEPT ![p] = Raise("KeyError")]
       ELSE \E row \in Matching(db, ref) :
            ret' = [ret EXCEPT ![p] = Ret("module", <<>>, <<>>, RowToModule(row))]
    /\ mod' = [mod EXCEPT ![p] = NoMod]
    /\ hdr' = [hdr EXCEPT ![p] = NoMod]
    /\ UNCHANGED <<db, nextId, pc, renders, known>>
    /\ UNCHANGED pureVars
    /\ UNCHANGED seed

\* generate_tf: mod = self.get_module(...) (line 256)
GenerateTf(p) ==
    \E ref \in Refs, vm \in VarMaps :
    /\ Start(p, Call("generate_tf", ref, NoArgs, vm))
    /\ GetInto(p, ref, "render", Raise("KeyError"))
    /\ hdr' = [hdr EXCEPT ![p] = NoMod]
    /\ UNCHANGED <<db, nextId, renders, known>>
    /\ UNCHANGED pureVars
    /\ UNCHANGED seed

\* export_plan: mod = self.get_module(...) (line 347)
ExportPlan(p) ==
    \E ref \in Refs, vm \in VarMaps :
    /\ Start(p, Call("export_plan", ref, NoArgs, vm))
    /\ IF Matching(db, ref) = {}
       THEN /\ ret' = [ret EXCEPT ![p] = Raise("KeyError")]
            /\ hdr' = [hdr EXCEPT ![p] = NoMod]
            /\ UNCHANGED pc
       ELSE \E row \in Matching(db, ref) :
            /\ hdr' = [hdr EXCEPT ![p] = RowToModule(row)]
            /\ ret' = [ret EXCEPT ![p] = NoRet]
            /\ pc' = [pc EXCEPT ![p] = "plan_get"]
    /\ mod' = [mod EXCEPT ![p] = NoMod]
    /\ UNCHANGED <<db, nextId, renders, known>>
    /\ UNCHANGED pureVars
    /\ UNCHANGED seed

\* export_plan: rendered = self.generate_tf(...), its get_module (lines 348, 256)
ExportPlanGet(p) ==
    /\ pc[p] = "plan_get"
    /\ GetInto(p, call[p].ref, "render", Raise("KeyError"))
    /\ UNCHANGED <<db, nextId, calls, call, hdr, renders, known>>
    /\ UNCHANGED pureVars
    /\ UNCHANGED seed

\* a faulty variant of GenerateTfRender: export_plan counts its render twice
GenerateTfRenderTwice(p) ==
    /\ pc[p] = "render"
    /\ pc' = [pc EXCEPT ![p] = "idle"]
    /\ IF Missing(mod[p].variables, call[p].vars) # <<>>
       THEN /\ ret' = [ret EXCEPT ![p] =
                        Ret("ValueError: Missing required variables", <<>>,
                            Missing(mod[p].variables, call[p].vars), NoMod)]
            /\ UNCHANGED <<db, renders>>
       ELSE /\ db' = IF call[p].op = "export_plan"
                     THEN IncrementDownloads(IncrementDownloads(db, mod[p]), mod[p])
                     ELSE IncrementDownloads(db, mod[p])
            /\ renders' = [renders EXCEPT ![mod[p].id] = @ + 1]
            /\ ret' = [ret EXCEPT ![p] =
                        IF call[p].op = "export_plan"
                        THEN Ret("plan", Render(mod[p], call[p].vars), <<>>, hdr[p])
                        ELSE Ret("text", Render(mod[p], call[p].vars), <<>>, NoMod)]
    /\ UNCHANGED <<nextId, calls, call, mod, hdr, known>>
    /\ UNCHANGED pureVars
    /\ UNCHANGED seed

\* generate_tf after get_module (lines 257-278); for export_plan the plan is
\* built from its result (lines 349-384)
GenerateTfRender(p) ==
    /\ pc[p] = "render"
    /\ pc' = [pc EXCEPT ![p] = "idle"]
    /\ IF Missing(mod[p].variables, call[p].vars) # <<>>
       THEN /\ ret' = [ret EXCEPT ![p] =
                        Ret("ValueError: Missing required variables", <<>>,
                            Missing(mod[p].variables, call[p].vars), NoMod)]
            /\ UNCHANGED <<db, renders>>
       ELSE /\ db' = IncrementDownloads(db, mod[p])
            /\ renders' = [renders EXCEPT ![mod[p].id] = @ + 1]
            /\ ret' = [ret EXCEPT ![p] =
                        IF call[p].op = "export_plan"
                        THEN Ret("plan", Render(mod[p], call[p].vars), <<>>, hdr[p])
                        ELSE Ret("text", Render(mod[p], call[p].vars), <<>>, NoMod)]
    /\ UNCHANGED <<nextId, calls, call, mod, hdr, known>>
    /\ UNCHANGED pureVars
    /\ UNCHANGED seed

\* delete_module: mod = self.get_module(...) or return False (lines 387-390)
DeleteModule(p) ==
    \E ref \in Refs :
    /\ Start(p, Call("delete_module", ref, NoArgs, <<>>))
    /\ GetInto(p, ref, "delete", Raise("False"))
    /\ hdr' = [hdr EXCEPT ![p] = NoMod]
    /\ UNCHANGED <<db, nextId, renders, known>>
    /\ UNCHANGED pureVars
    /\ UNCHANGED seed

\* delete_module: the DELETE and return True (lines 391-393)
DeleteExec(p) ==
    /\ pc[p] = "delete"
    /\ pc' = [pc EXCEPT ![p] = "idle"]
    /\ db' = DeleteRow(db, mod[p])
    /\ ret' = [ret EXCEPT ![p] = Raise("True")]
    /\ UNCHANGED <<nextId, calls, call, mod, hdr, renders, known>>
    /\ UNCHANGED pureVars
    /\ UNCHANGED seed

\* list_modules (lines 318-334): one SELECT
ListModules(p) ==
    \E pf \in ProviderFilters, rf \in ResourceFilters :
    /\ Start(p, CallQ("list_modules", <<pf, rf>>))
    /\ ret' = [ret EXCEPT ![p] =
                RetList("modules", MapSeq(RowToModule, ListRows(db, pf, rf)))]
    /\ mod' = [mod EXCEPT ![p] = NoMod]
    /\ hdr' = [hdr EXCEPT ![p] = NoMod]
    /\ UNCHANGED <<db, nextId, pc, renders, known>>
    /\ UNCHANGED pureVars
    /\ UNCHANGED seed

\* search (lines 395-406): one SELECT; rows of equal download_count come in
\* any order
Search(p) ==
    \E query \in Queries :
    /\ Start(p, CallQ("search", query))
    /\ \E o \in DescendingOrders({r \in db : SearchMatches(r, query)}) :
        ret' = [ret EXCEPT ![p] = RetList("modules", MapSeq(RowToModule, o))]
    /\ mod' = [mod EXCEPT ![p] = NoMod]
    /\ hdr' = [hdr EXCEPT ![p] = NoMod]
    /\ UNCHANGED <<db, nextId, pc, renders, known>>
    /\ UNCHANGED pureVars
    /\ UNCHANGED seed

\* get_stats: SELECT COUNT(*) (line 410); each SELECT reads the store as it
\* is when it runs
GetStats(p) ==
    /\ Start(p, CallQ("get_stats", <<>>))
    /\ pc' = [pc EXCEPT ![p] = "stats_by_provider"]
    /\ ret' = [ret EXCEPT ![p] = [NoRet EXCEPT !.total = Cardinality(db)]]
    /\ mod' = [mod EXCEPT ![p] = NoMod]
    /\ hdr' = [hdr EXCEPT ![p] = NoMod]
    /\ UNCHANGED <<db, nextId, renders, known>>
    /\ UNCHANGED pureVars
    /\ UNCHANGED seed

\* get_stats: SELECT provider, COUNT(*) ... GROUP BY provider (lines 411-413)
GetStatsByProvider(p) ==
    /\ pc[p] = "stats_by_provider"
    /\ pc' = [pc EXCEPT ![p] = "stats_top"]
    /\ ret' = [ret EXCEPT ![p].by_provider = ByProvider(db)]
    /\ UNCHANGED <<db, nextId, calls, call, mod, hdr, renders, known>>
    /\ UNCHANGED pureVars
    /\ UNCHANGED seed

\* get_stats: SELECT ... ORDER BY download_count DESC LIMIT 5 and the result
\* (lines 414-424)
GetStatsTop(p) ==
    /\ pc[p] = "stats_top"
    /\ pc' = [pc EXCEPT ![p] = "idle"]
    /\ \E o \in DescendingOrders(db) :
        ret' = [ret EXCEPT ![p].kind = "stats",
                           ![p].list = MapSeq(TopEntry, FirstN(o, TopLimit))]
    /\ UNCHANGED <<db, nextId, calls, call, mod, hdr, renders, known>>
    /\ UNCHANGED pureVars
    /\ UNCHANGED seed

\* validate_hcl as a call on the registry (lines 280-316): no statement
ValidateHcl(p) ==
    \E text \in ValidateInputs :
    /\ Start(p, CallQ("validate_hcl", text))
    /\ ret' = [ret EXCEPT ![p] =
                [NoRet EXCEPT !.kind = "validation", !.vr = validate_hcl(text)]]
    /\ mod' = [mod EXCEPT ![p] = NoMod]
    /\ hdr' = [hdr EXCEPT ![p] = NoMod]
    /\ UNCHANGED <<db, nextId, pc, renders, known>>
    /\ UNCHANGED pureVars
    /\ UNCHANGED seed

\* generate_docs (lines 426-463): get_module, then the text
GenerateDocs(p) ==
    \E ref \in Refs :
    /\ Start(p, Call("generate_docs", ref, NoArgs, <<>>))
    /\ IF Matching(db, ref) = {}
       THEN ret' = [ret EXCEPT ![p] = Raise("KeyError")]
       ELSE \E row \in Matching(db, ref) :
            ret' = [ret EXCEPT ![p] =
                     Ret("docs", JoinLines(DocsLines(RowToModule(row))), <<>>, NoMod)]
    /\ mod' = [mod EXCEPT ![p] = NoMod]
    /\ hdr' = [hdr EXCEPT ![p] = NoMod]
    /\ UNCHANGED <<db, nextId, pc, renders, known>>
    /\ UNCHANGED pureVars
    /\ UNCHANGED seed

----------------------------------------------------------------------------
(* validate_hcl and the plan of export_plan as functions of a text: a      *)
(* caller builds a text, has it validated, and has the plan written that   *)
(* export_plan writes for a stored module with that text as its template.  *)

InitText ==
    /\ InitRegistry
    /\ txt \in SeedTexts
    /\ npieces = 0
    /\ obj = NoMod
    /\ res = NoRes

ExtendText ==
    \E piece \in Pieces :
    /\ npieces < MaxPieces
    /\ npieces' = npieces + 1
    /\ txt' = txt \o piece
    /\ res' = NoRes
    /\ UNCHANGED obj
    /\ UNCHANGED regVars
    /\ UNCHANGED seed

\* validate_hcl(txt) (lines 280-316)
ValidateText ==
    /\ res' = Res("validation", <<>>, <<>>, validate_hcl(txt))
    /\ UNCHANGED <<txt, npieces, obj>>
    /\ UNCHANGED regVars
    /\ UNCHANGED seed

\* the module register_module stores for the template txt (lines 239-251)
TextModule ==
    [NoMod EXCEPT !.id = IdSeq[1], !.name = "m", !.provider = "aws",
                  !.resource_type = "t", !.version = <<"1", ".", "0", ".", "0">>,
                  !.hcl_template = txt, !.variables = VarsABC, !.outputs = Outs,
                  !.created_at = 1]

\* export_plan on that module (lines 346-384); register_module has stored it
\* only if validate_hcl accepts the template (line 237)
ExportPlanText ==
    /\ HclValid(txt)
    /\ \E vm \in VarMaps :
        /\ Missing(VarsABC, vm) = <<>>
        /\ LET rendered == Render(TextModule, vm)
           IN  res' = Res("plan", PlanText(TextModule, rendered, "T"),
                          rendered, NoValidation)
    /\ UNCHANGED <<txt, npieces, obj>>
    /\ UNCHANGED regVars
    /\ UNCHANGED seed

NextText == ExtendText \/ ValidateText \/ ExportPlanText

SpecText == InitText /\ [][NextText]_vars

----------------------------------------------------------------------------
(* generate_tf as a function of the template, the declared variables and   *)
(* the supplied values (lines 257-274): a caller builds a template, and    *)
(* generate_tf runs on the module register_module has stored for it.       *)

\* ${${var.b}}        (a placeholder inside the braces of ${ })
TplNested == <<"$", "{">> \o Placeholder("b") \o <<"}">>

\* the templates a caller starts from
RenderSeeds == {<<>>, TplResource, TplPair, TplNested}

\* what a caller extends a template by
RenderPieces ==
    {Placeholder("a"), Placeholder("b"), Placeholder("c"), <<"x">>,
     <<"$", "{">>, <<"}">>}

\* a variable redeclared: another type, description and sensitive flag
Redeclare(v, type, description, sensitive) ==
    [v EXCEPT !.type = type, !.description = description, !.sensitive = sensitive]

\* VarsABC with type number, description e and the sensitive flags inverted
VarsABCRedeclared ==
    [i \in DOMAIN VarsABC |->
        Redeclare(VarsABC[i], "number", "e", ~ VarsABC[i].sensitive)]

\* the variable lists of the modules rendered
RenderVarLists == {VarsABC, VarsABCRedeclared, VarsReq, VarsDup}

\* the mappings generate_tf is called with: those of VarMaps, a value that is
\* its own placeholder, two values that are each other's placeholder, a
\* value that completes a placeholder, all five names of VarsReq
RenderMaps ==
    VarMaps \cup
    {<<Entry("a", PyStrVal(Placeholder("a")))>>,
     <<Entry("a", PyStrVal(Placeholder("b"))), Entry("b", PyStrVal(Placeholder("a")))>>,
     <<Entry("a", PyStrVal(<<"x">>)), Entry("b", PyStrVal(<<"var.", "a">>))>>,
     <<Entry("a", PyIntVal("7")), Entry("b", PyFalse), Entry("z", PyNone)>>}

InitRender ==
    /\ InitRegistry
    /\ txt \in RenderSeeds
    /\ npieces = 0
    /\ obj = NoMod
    /\ res = NoRes

ExtendTemplate ==
    \E piece \in RenderPieces :
    /\ npieces < MaxPieces
    /\ npieces' = npieces + 1
    /\ txt' = txt \o piece
    /\ obj' = NoMod
    /\ res' = NoRes
    /\ call' = [p \in Procs |-> NoCall]
    /\ UNCHANGED <<db, nextId, calls, pc, mod, hdr, ret, renders, known, seed>>

\* what generate_tf does with a loaded module and a mapping (lines 257-274):
\* the missing-variables failure with its names, or the text
RenderOutcome(m, vm) ==
    IF Missing(m.variables, vm) # <<>>
    THEN Res("ValueError: Missing required variables",
             Missing(m.variables, vm), <<>>, NoValidation)
    ELSE Res("text", Render(m, vm), <<>>, NoValidation)

\* the variables get_module loads after _save has stored a list (lines 212,
\* 187), for the lists of this model
StoredVariables ==
    [variables \in RenderVarLists |->
        MapSeq(LoadVariable, MapSeq(DumpVariable, variables))]

\* the module get_module loads after register_module has stored the template
\* txt with the given variables (lines 239-251, 209-217, 174-193)
StoredModule(variables) ==
    [TextModule EXCEPT !.variables = StoredVariables[variables]]

\* generate_tf on that module, once per template; register_module has stored
\* it only if validate_hcl accepts the template (line 237)
RenderText ==
    /\ HclValid(txt)
    /\ res = NoRes
    /\ \E variables \in RenderVarLists, vm \in RenderMaps :
        /\ obj' = StoredModule(variables)
        /\ call' = [p \in Procs |-> Call("generate_tf", "m", NoArgs, vm)]
        /\ res' = RenderOutcome(StoredModule(variables), vm)
    /\ UNCHANGED <<txt, npieces>>
    /\ UNCHANGED <<db, nextId, calls, pc, mod, hdr, ret, renders, known, seed>>

NextRender == ExtendTemplate \/ RenderText

SpecRender == InitRender /\ [][NextRender]_vars

----------------------------------------------------------------------------
(* TerraformModule.bump_version on a module object in a caller's hands.    *)

\* version.split("."): the parts between the "." tokens
RECURSIVE SplitDots(_, _)
SplitDots(s, cur) ==
    IF s = <<>> THEN <<cur>>
    ELSE IF Head(s) = "." THEN <<cur>> \o SplitDots(Tail(s), <<>>)
    ELSE SplitDots(Tail(s), Append(cur, Head(s)))

\* the numerals int() reads in this model, with the number each stands for
Numerals ==
    {<<"0", 0>>, <<"1", 1>>, <<"2", 2>>, <<"3", 3>>, <<"4", 4>>, <<"5", 5>>,
     <<"6", 6>>, <<"7", 7>>, <<"8", 8>>, <<"9", 9>>, <<"00", 0>>, <<"01", 1>>}

\* int(part) succeeds
IsInt(part) == Len(part) = 1 /\ \E n \in Numerals : n[1] = part[1]

\* int(part)
IntOf(part) == (CHOOSE n \in Numerals : n[1] = part[1])[2]

\* f"{major}.{minor}.{patch}"
VersionText(major, minor, patch) ==
    <<StrOfCount(major), ".", StrOfCount(minor), ".", StrOfCount(patch)>>

\* a faulty variant of Bumped: 'minor' leaves the patch number
BumpedKeepPatch(version, part) ==
    LET p == SplitDots(version, <<>>)
        major == IntOf(p[1])
        minor == IntOf(p[2])
        patch == IntOf(p[3])
    IN  IF part = "major" THEN VersionText(major + 1, 0, 0)
        ELSE IF part = "minor" THEN VersionText(major, minor + 1, patch)
        ELSE VersionText(major, minor, patch + 1)

\* lines 103-110: the new version text
Bumped(version, part) ==
    LET p == SplitDots(version, <<>>)
        major == IntOf(p[1])
        minor == IntOf(p[2])
        patch == IntOf(p[3])
    IN  IF part = "major" THEN VersionText(major + 1, 0, 0)
        ELSE IF part = "minor" THEN VersionText(major, minor + 1, 0)
        ELSE VersionText(major, minor, patch + 1)

\* major, minor, patch = map(int, self.version.split(".")) does not raise
Parses(version) ==
    LET p == SplitDots(version, <<>>)
    IN  Len(p) = 3 /\ \A k \in 1..3 : IsInt(p[k])

MaxVersionPart == 4

\* the numbers of a version that parses are all below the bound
BelowBound(version) ==
    \A k \in 1..3 : IntOf(SplitDots(version, <<>>)[k]) < MaxVersionPart

\* the versions of the module objects callers start with
StartVersions ==
    {<<a, ".", b, ".", c>> : a \in {"0", "1", "01"}, b \in {"0", "1"}, c \in {"0", "1", "00"}}
    \cup {<<"1", ".", "0">>, <<"1", ".", "x", ".", "0">>}

\* the ways bump_version is called: with a part, or with none ("patch")
BumpParts == {"major", "minor", "patch", "Major"}

DefaultPart == "patch"

InitBump ==
    /\ InitRegistry
    /\ txt = <<>>
    /\ npieces = 0
    /\ res = NoRes
    /\ \E v \in StartVersions :
        obj = [NoMod EXCEPT !.id = IdSeq[1], !.name = "m", !.provider = "aws",
                            !.resource_type = "t", !.version = v,
                            !.hcl_template = BlockPiece, !.variables = VarsABC,
                            !.outputs = Outs, !.created_at = 1]

\* obj.bump_version(part) (lines 102-111)
BumpVersion(part) ==
    /\ IF ~ Parses(obj.version)
       THEN /\ res' = Res("ValueError", <<>>, <<>>, NoValidation)
            /\ UNCHANGED obj
       ELSE /\ BelowBound(obj.version)
            /\ obj' = [obj EXCEPT !.version = Bumped(obj.version, part)]
            /\ res' = Res("version", Bumped(obj.version, part), <<part>>,
                          NoValidation)
    /\ UNCHANGED <<txt, npieces>>
    /\ UNCHANGED regVars
    /\ UNCHANGED seed

BumpVersionPart == \E part \in BumpParts : BumpVersion(part)

BumpVersionDefault == BumpVersion(DefaultPart)

NextBump == BumpVersionPart \/ BumpVersionDefault

SpecBump == InitBump /\ [][NextBump]_vars

----------------------------------------------------------------------------

Next ==
    \E p \in Procs :
        \/ RegisterModule(p)
        \/ Save(p)
        \/ GetModule(p)
        \/ GenerateTf(p)
        \/ ExportPlan(p)
        \/ ExportPlanGet(p)
        \/ GenerateTfRender(p)
        \/ DeleteModule(p)
        \/ DeleteExec(p)

Spec == Init /\ [][Next]_vars

\* The store after register_module("m", aws ...), register_module("u1",
\* gcp ...) and one generate_tf of the second module: two rows, the one that
\* sorts later by name having the higher download_count.
StockedFirst == NewModule("m", RegArgs("aws", TplResource, VarsABC, DescNet, TagsTwo), 1)

StockedSecond ==
    [NewModule("u1", [RegArgs("gcp", TplPair, VarsReq, <<>>, <<>>)
                        EXCEPT !.resource_type = "s"], 2)
        EXCEPT !.download_count = 1]

StockedRows == {ModuleToRow(StockedFirst), ModuleToRow(StockedSecond)}

\* the calls that are counted as made when the store starts with rows
StockedCalls == 1

\* a registry that is empty, or holds the two rows above
InitAll ==
    /\ \/ /\ db = {}
          /\ nextId = 0
          /\ calls = 0
          /\ renders = [i \in Ids |-> 0]
          /\ known = {}
       \/ /\ db = StockedRows
          /\ nextId = 2
          /\ calls = StockedCalls
          /\ renders = [i \in Ids |-> IF i = StockedSecond.id THEN 1 ELSE 0]
          /\ known = {StockedFirst.id, StockedSecond.id}
    /\ pc = [p \in Procs |-> "idle"]
    /\ call = [p \in Procs |-> NoCall]
    /\ mod = [p \in Procs |-> NoMod]
    /\ hdr = [p \in Procs |-> NoMod]
    /\ ret = [p \in Procs |-> NoRet]
    /\ seed = [p \in Procs |-> 0]
    /\ InitPure

----------------------------------------------------------------------------
(* The constructor: __init__ creates the table and the indexes and calls   *)
(* _seed_builtin_modules (lines 138-142, 467-871). Each statement on the   *)
(* store is one step, so constructions on one database file interleave.    *)

\* the template of kubernetes_deployment (lines 754-803), shortened: a
\* resource block that holds a line  resources {
TplDeployment ==
    <<"resource", " ", "\"", "t", "\"", " ", "\"">> \o Placeholder("a")
    \o <<"\"", " ", "{", "\n", "resources", " ", "{", "\n", "}", "\n", "}">>

\* one entry of modules_data: the keyword arguments of register_module
Builtin(name, provider, tpl) ==
    [name |-> name, args |-> RegArgs(provider, tpl, VarsABC, DescNet, TagsTwo)]

\* modules_data (lines 474-865), in its order
Builtins ==
    <<Builtin("aws_ec2_instance", "aws", TplResource),
      Builtin("aws_s3_bucket", "aws", TplResource),
      Builtin("aws_rds_instance", "aws", TplResource),
      Builtin("aws_vpc", "aws", TplResource),
      Builtin("gcp_gce_instance", "gcp", TplResource),
      Builtin("gcp_gcs_bucket", "gcp", TplResource),
      Builtin("kubernetes_deployment", "kubernetes", TplDeployment),
      Builtin("kubernetes_service", "kubernetes", TplResource)>>

\* uuid4() in the constructors: the ids generated, in order
SeedIdSeq ==
    <<"s1", "s2", "s3", "s4", "s5", "s6", "s7", "s8", "s9", "s10", "s11",
      "s12", "s13", "s14", "s15", "s16">>

\* the TerraformModule register_module constructs for a built-in (lines
\* 239-251), the n-th of this database
SeedModule(b, n) ==
    [NewModule(b.name, b.args, 1) EXCEPT !.id = SeedIdSeq[n], !.created_at = n]

\* a new database file, or one that holds a module a caller registered
InitSeed ==
    /\ db \in {{}, {ModuleToRow(NewModule("m", RegArgs("aws", TplResource, VarsABC, DescNet, TagsTwo), 1))}}
    /\ nextId = Cardinality(db)
    /\ calls = 0
    /\ pc = [p \in Procs |-> "idle"]
    /\ call = [p \in Procs |-> NoCall]
    /\ mod = [p \in Procs |-> NoMod]
    /\ hdr = [p \in Procs |-> NoMod]
    /\ ret = [p \in Procs |-> NoRet]
    /\ renders = [i \in Ids |-> 0]
    /\ known = {}
    /\ seed = [p \in Procs |-> 0]
    /\ InitPure

\* TerraformRegistry(db_path): mkdir and _init_db (lines 138-141)
Construct(p) ==
    /\ Start(p, CallQ("__init__", <<>>))
    /\ pc' = [pc EXCEPT ![p] = "seed_count"]
    /\ ret' = [ret EXCEPT ![p] = NoRet]
    /\ mod' = [mod EXCEPT ![p] = NoMod]
    /\ hdr' = [hdr EXCEPT ![p] = NoMod]
    /\ UNCHANGED <<db, nextId, renders, known, seed>>
    /\ UNCHANGED pureVars

\* the loop of _seed_builtin_modules moves to the next entry, or ends
\* (lines 867-871) and __init__ returns
SeedAdvance(p) ==
    IF seed[p] = Len(Builtins)
    THEN /\ seed' = [seed EXCEPT ![p] = 0]
         /\ pc' = [pc EXCEPT ![p] = "idle"]
         /\ ret' = [ret EXCEPT ![p] = Raise("constructed")]
    ELSE /\ seed' = [seed EXCEPT ![p] = @ + 1]
         /\ pc' = [pc EXCEPT ![p] = "seed_register"]
         /\ UNCHANGED ret

\* _seed_builtin_modules: SELECT COUNT(*) and the test count > 0 (lines 469-472)
SeedCount(p) ==
    /\ pc[p] = "seed_count"
    /\ IF Cardinality(db) > 0
       THEN /\ pc' = [pc EXCEPT ![p] = "idle"]
            /\ ret' = [ret EXCEPT ![p] = Raise("constructed")]
            /\ UNCHANGED seed
       ELSE /\ pc' = [pc EXCEPT ![p] = "seed_register"]
            /\ seed' = [seed EXCEPT ![p] = 1]
            /\ UNCHANGED ret
    /\ UNCHANGED <<db, nextId, calls, call, mod, hdr, renders, known>>
    /\ UNCHANGED pureVars

\* self.register_module(**m) up to the construction of mod (lines 869,
\* 234-251); an exception is passed over (lines 870-871)
SeedRegister(p) ==
    /\ pc[p] = "seed_register"
    /\ IF RegistrationError(Builtins[seed[p]].args) # ""
       THEN /\ SeedAdvance(p)
            /\ UNCHANGED <<nextId, mod>>
       ELSE /\ nextId < Len(SeedIdSeq)
            /\ nextId' = nextId + 1
            /\ mod' = [mod EXCEPT ![p] = SeedModule(Builtins[seed[p]], nextId + 1)]
            /\ pc' = [pc EXCEPT ![p] = "seed_save"]
            /\ UNCHANGED <<ret, seed>>
    /\ UNCHANGED <<db, calls, call, hdr, renders, known>>
    /\ UNCHANGED pureVars

\* self._save(mod) of that register_module (lines 252, 195-217); the
\* IntegrityError of a stored name is passed over (lines 870-871)
SeedSave(p) ==
    /\ pc[p] = "seed_save"
    /\ db' = IF NameConflict(db, mod[p]) THEN db ELSE Upsert(db, mod[p])
    /\ SeedAdvance(p)
    /\ UNCHANGED <<nextId, calls, call, mod, hdr, renders, known>>
    /\ UNCHANGED pureVars

NextSeed ==
    \E p \in Procs :
        \/ Construct(p)
        \/ SeedCount(p)
        \/ SeedRegister(p)
        \/ SeedSave(p)

SpecSeed == InitSeed /\ [][NextSeed]_vars

\* a registry that holds the two rows above, no call made yet
InitPlan ==
    /\ db = StockedRows
    /\ nextId = 2
    /\ calls = 0
    /\ renders = [i \in Ids |-> IF i = StockedSecond.id THEN 1 ELSE 0]
    /\ known = {StockedFirst.id, StockedSecond.id}
    /\ pc = [p \in Procs |-> "idle"]
    /\ call = [p \in Procs |-> NoCall]
    /\ mod = [p \in Procs |-> NoMod]
    /\ hdr = [p \in Procs |-> NoMod]
    /\ ret = [p \in Procs |-> NoRet]
    /\ seed = [p \in Procs |-> 0]
    /\ InitPure

\* export_plan interleaved with delete_module and register_module
NextPlan ==
    \E p \in Procs :
        \/ ExportPlan(p)
        \/ ExportPlanGet(p)
        \/ GenerateTfRender(p)
        \/ DeleteModule(p)
        \/ DeleteExec(p)
        \/ RegisterModule(p)
        \/ Save(p)

SpecPlan == InitPlan /\ [][NextPlan]_vars

\* every operation of the registry
NextAll ==
    \E p \in Procs :
        \/ RegisterModule(p)
        \/ Save(p)
        \/ GetModule(p)
        \/ GenerateTf(p)
        \/ ExportPlan(p)
        \/ ExportPlanGet(p)
        \/ GenerateTfRender(p)
        \/ DeleteModule(p)
        \/ DeleteExec(p)
        \/ ListModules(p)
        \/ Search(p)
        \/ GetStats(p)
        \/ GetStatsByProvider(p)
        \/ GetStatsTop(p)
        \/ ValidateHcl(p)
        \/ GenerateDocs(p)

SpecAll == InitAll /\ [][NextAll]_vars


----------------------------------------------------------------------------
(* Claims                                                                  *)

Idle(p) == pc[p] = "idle"

Returned(p, op, kind) == Idle(p) /\ call[p].op = op /\ ret[p].kind = kind

\* C1: a stored module's download_count equals the number of generate_tf
\* calls that returned text for it, in every interleaving of their steps:
\* each successful render adds exactly 1 and N of them add exactly N.
C1_NoLostUpdate == \A r \in db : r.download_count = renders[r.id]

\* two renders of one stored module both read it before either updated it
C1_Witness ==
    \E r \in db :
        /\ r.download_count = 2
        /\ \A p \in Procs :
            /\ Returned(p, "generate_tf", "text")
            /\ mod[p].id = r.id
            /\ mod[p].download_count = 0

\* C2: no two stored modules have the same name, and a _save of a module
\* whose name is already stored raises and leaves the store as it was.
C2_NamesUnique ==
    /\ [](\A r1, r2 \in db : r1.name = r2.name => r1 = r2)
    /\ [][\A p \in Procs :
            (Save(p) /\ \E r \in db : r.name = mod[p].name)
                => (ret'[p].kind = "IntegrityError" /\ db' = db)]_vars

\* two registrations of one name in flight together: the one that built its
\* module first saved second and was refused
C2_Witness ==
    \E p, q \in Procs :
        /\ Returned(p, "register_module", "IntegrityError")
        /\ Returned(q, "register_module", "module")
        /\ call[p].ref = call[q].ref
        /\ mod[p].id = IdSeq[1] /\ mod[q].id = IdSeq[2]
        /\ \E r \in db : r.id = mod[q].id /\ r.name = call[p].ref


\* the text the claim C3 describes: every placeholder of a declared variable
\* replaced at once, by the supplied value, else the default, else itself
ClaimedValue(variables, vm, k) ==
    IF k \in DictKeys(vm) THEN PyStr(DictGet(vm, k))
    ELSE IF \E i \in 1..Len(variables) :
                variables[i].name = k /\ variables[i].default # PyNone
    THEN PyStr(variables[CHOOSE i \in 1..Len(variables) :
                variables[i].name = k /\ variables[i].default # PyNone].default)
    ELSE Placeholder(k)

RECURSIVE ClaimedText(_, _, _, _)
ClaimedText(tpl, variables, vm, i) ==
    IF i > Len(tpl) THEN <<>>
    ELSE IF \E j \in 1..Len(variables) : MatchAt(tpl, Placeholder(variables[j].name), i)
    THEN ClaimedValue(variables, vm, tpl[i + 3])
            \o ClaimedText(tpl, variables, vm, i + 5)
    ELSE <<tpl[i]>> \o ClaimedText(tpl, variables, vm, i + 1)

\* C3: in the text generate_tf returns, each placeholder of a declared
\* variable is replaced by the supplied value, else by the default, and is
\* left verbatim when there is neither.
C3_Substitution ==
    \A p \in Procs :
        Returned(p, "generate_tf", "text") =>
            ret[p].text = ClaimedText(mod[p].hcl_template, mod[p].variables,
                                      call[p].vars, 1)

MissingKind == "ValueError: Missing required variables"

\* the names the claims C4 and C10 call missing
ClaimMissing(variables, vm) ==
    {variables[j].name : j \in
        {i \in 1..Len(variables) :
            /\ variables[i].required
            /\ variables[i].default = PyNone
            /\ \A e \in 1..Len(vm) : vm[e].k # variables[i].name}}

\* C4: generate_tf raises the missing-variables error exactly when some
\* variable is required, has no default and is not supplied; the error names
\* all of them and the store is left as it was.
C4_MissingVariables ==
    [][\A p \in Procs :
        GenerateTfRender(p) =>
            LET want == ClaimMissing(mod[p].variables, call[p].vars)
            IN  /\ (ret'[p].kind = MissingKind) <=> (want # {})
                /\ want # {} =>
                    /\ {ret'[p].names[i] : i \in 1..Len(ret'[p].names)} = want
                    /\ db' = db]_vars

\* a render of a stored module failed naming two variables, count still 0
C4_Witness ==
    \E p \in Procs :
        /\ Returned(p, "generate_tf", MissingKind)
        /\ Len(ret[p].names) = 2
        /\ \E r \in db : r.id = mod[p].id /\ r.download_count = 0

\* C5: after a successful register_module, get_module by the returned id
\* yields the registered name, provider, version, template, variables and
\* outputs.
C5_RoundTrip ==
    [][\A p \in Procs :
        (Save(p) /\ ret'[p].kind = "module") =>
            /\ Matching(db', ret'[p].mod.id) # {}
            /\ \A row \in Matching(db', ret'[p].mod.id) :
                LET m == RowToModule(row)
                IN  /\ m.name = call[p].ref
                    /\ m.provider = call[p].args.provider
                    /\ m.version = call[p].args.version
                    /\ m.hcl_template = call[p].args.hcl_template
                    /\ m.variables = call[p].args.variables
                    /\ m.outputs = call[p].args.outputs]_vars

\* a module with number and bool defaults was registered and is stored
C5_Witness ==
    \E p \in Procs :
        /\ Returned(p, "register_module", "module")
        /\ call[p].args.variables = VarsReq
        /\ \E r \in db : r.id = ret[p].mod.id

ClaimProviders == {"aws", "gcp", "azure", "kubernetes", "helm", "null"}

\* C6: a register_module with a provider outside the enumeration, or with a
\* template validate_hcl rejects, raises and leaves the store as it was.
C6_RejectedRegistration ==
    [][\A p \in Procs :
        (/\ RegisterModule(p)
         /\ \/ call'[p].args.provider \notin ClaimProviders
            \/ ~ validate_hcl(call'[p].args.hcl_template).valid) =>
            /\ ret'[p].kind \in {"ValueError: Unknown provider",
                                 "ValueError: Invalid HCL template"}
            /\ pc'[p] = "idle"
            /\ db' = db]_vars

\* both kinds of rejection happened on a store that holds a module
C6_Witness ==
    \E p, q \in Procs :
        /\ Returned(p, "register_module", "ValueError: Unknown provider")
        /\ Returned(q, "register_module", "ValueError: Invalid HCL template")
        /\ db # {}

\* C7: delete_module on a reference that matches nothing returns False and
\* changes nothing; on a stored module it returns True and removes exactly
\* that module, so that get_module by its id then raises KeyError.
C7_Delete ==
    [][\A p \in Procs :
        /\ (DeleteModule(p) /\ Matching(db, call'[p].ref) = {}) =>
                (ret'[p].kind = "False" /\ pc'[p] = "idle" /\ db' = db)
        /\ (DeleteModule(p) /\ Matching(db, call'[p].ref) # {}) =>
                (pc'[p] = "delete" /\ db' = db)
        /\ DeleteExec(p) =>
                /\ ret'[p].kind = "True"
                /\ db' = {r \in db : r.id # mod[p].id}
                /\ Matching(db', mod[p].id) = {}]_vars

\* C8: of two delete_module calls for the same stored module, at most one
\* returns True.
C8_OneDeleteWins ==
    \A p, q \in Procs :
        (/\ p # q
         /\ Returned(p, "delete_module", "True")
         /\ Returned(q, "delete_module", "True")) => mod[p].id # mod[q].id

\* C9: for every stored module m, its id and its name each resolve to m and
\* to no other stored module.
C9_RefResolution ==
    \A m \in db : Matching(db, m.id) = {m} /\ Matching(db, m.name) = {m}

\* C10: export_plan raises KeyError on an unknown reference and the missing-
\* variables error when a required variable is missing, the store unchanged;
\* when it returns a plan the module's download_count has grown by exactly 1
\* and nothing else in the store has changed.
C10_ExportPlan ==
    [][\A p \in Procs :
        /\ ExportPlan(p) =>
            /\ db' = db
            /\ Matching(db, call'[p].ref) = {} =>
                    (ret'[p].kind = "KeyError" /\ pc'[p] = "idle")
        /\ ExportPlanGet(p) =>
            /\ db' = db
            /\ Matching(db, call[p].ref) = {} =>
                    (ret'[p].kind = "KeyError" /\ pc'[p] = "idle")
        /\ (GenerateTfRender(p) /\ call[p].op = "export_plan") =>
            IF ClaimMissing(mod[p].variables, call[p].vars) # {}
            THEN ret'[p].kind = MissingKind /\ db' = db
            ELSE /\ ret'[p].kind = "plan"
                 /\ db' = {IF r.id = mod[p].id
                           THEN [r EXCEPT !.download_count = r.download_count + 1]
                           ELSE r : r \in db}]_vars

\* an export_plan returned a plan and the stored count is one above the
\* count it read
C10_Witness ==
    \E p \in Procs :
        /\ Returned(p, "export_plan", "plan")
        /\ \E r \in db :
            r.id = mod[p].id /\ r.download_count = mod[p].download_count + 1

----------------------------------------------------------------------------
(* Claims about validate_hcl and the plan of export_plan, checked under    *)
(* SpecText.                                                               *)

\* the header of a block as the claims write it, from the keyword at i to
\* the opening brace at o: resource "<type>" "<name>" {
HeaderAt(s, i, o) ==
    /\ s[i] = "resource"
    /\ \E a \in (i + 2)..Len(s) :
        /\ s[a] = "\"" /\ \A k \in (i + 1)..(a - 1) : s[k] \in WS
        /\ \E b \in (a + 2)..Len(s) :
            /\ s[b] = "\""
            /\ \A k \in (a + 1)..(b - 1) : s[k] \notin NonWordToks
            /\ \E c \in (b + 2)..Len(s) :
                /\ s[c] = "\"" /\ \A k \in (b + 1)..(c - 1) : s[k] \in WS
                /\ \E d \in (c + 2)..Len(s) :
                    /\ s[d] = "\"" /\ d < o
                    /\ \A k \in (c + 1)..(d - 1) :
                            s[k] \notin NonWordToks \/ s[k] = "-"
                    /\ \A k \in (d + 1)..(o - 1) : s[k] \in WS
    /\ s[o] = "{"

\* a resource block from the keyword at i to the first closing brace, at e
IsBlock(s, i, e) ==
    \E o \in (i + 1)..(e - 1) :
        /\ HeaderAt(s, i, o)
        /\ s[e] = "}"
        /\ \A k \in (o + 1)..(e - 1) : s[k] # "}"

\* the blocks of a text, left to right, none inside another
RECURSIVE CountBlocks(_, _)
CountBlocks(s, i) ==
    IF i > Len(s) THEN 0
    ELSE IF \E e \in (i + 1)..Len(s) : IsBlock(s, i, e)
         THEN 1 + CountBlocks(s, 1 + CHOOSE e \in (i + 1)..Len(s) : IsBlock(s, i, e))
         ELSE CountBlocks(s, i + 1)

\* the text is one resource block and nothing else: a header, a body with
\* no further block, the closing brace
SingleBlockText(s) ==
    /\ s # <<>> /\ s[Len(s)] = "}"
    /\ \E o \in 2..(Len(s) - 1) :
        /\ HeaderAt(s, 1, o)
        /\ \A k \in (o + 1)..Len(s) : s[k] # "resource"

SummaryOf(n) == <<"Plan: ", StrOfCount(n), SummaryTail>>

Balanced(s) ==
    /\ Count(s, "{") = Count(s, "}")
    /\ Count(s, "[") = Count(s, "]")
    /\ Count(s, "(") = Count(s, ")")

ErrorMsgs(vr) == {vr.errors[k].msg : k \in 1..Len(vr.errors)}

\* C12: validate_hcl returns valid exactly when its error list is empty,
\* whatever its warnings.
C12_ValidIffNoErrors ==
    res.kind = "validation" => (res.vr.valid <=> res.vr.errors = <<>>)

\* a text with the three kinds of warning and no error was found valid
C12_Witness ==
    /\ res.kind = "validation"
    /\ res.vr.valid
    /\ {res.vr.warnings[k].msg : k \in 1..Len(res.vr.warnings)} =
            {"No resource/data/module block found", "Suspicious interpolation",
             "Found $${}"}

HasWellFormedBlock(s) == \E i \in 1..Len(s), e \in 1..Len(s) : IsBlock(s, i, e)

ResourceLinesLabelled(s) ==
    \A k \in 1..Len(SplitLines(s, <<>>)) :
        LET l == Strip(SplitLines(s, <<>>)[k])
        IN  (l # <<>> /\ Head(l) \in ResourcePrefixed) => NumParts(l, FALSE) >= 3

C14_EmptyInvalid ==
    (res.kind = "validation" /\ \A k \in 1..Len(txt) : txt[k] \in WS) =>
        (~ res.vr.valid /\ "HCL string is empty" \in ErrorMsgs(res.vr))

\* a text of two whitespace characters was validated
C14_Witness ==
    /\ res.kind = "validation"
    /\ Len(txt) = 2 /\ \A k \in 1..Len(txt) : txt[k] \in WS
    /\ ~ res.vr.valid

\* where an error message stands in the list, 0 if it is not there
ErrorPos(vr, msg) ==
    IF msg \in ErrorMsgs(vr)
    THEN CHOOSE k \in 1..Len(vr.errors) : vr.errors[k].msg = msg
    ELSE 0

\* C15: each of the three imbalance errors is in the list exactly when the
\* counts of its opening and closing characters differ, each makes the
\* result invalid, and they stand in the order braces, brackets, parentheses.
C15_Imbalance ==
    res.kind = "validation" =>
        LET braces   == ErrorPos(res.vr, "Unbalanced curly braces { }")
            brackets == ErrorPos(res.vr, "Unbalanced square brackets [ ]")
            parens   == ErrorPos(res.vr, "Unbalanced parentheses ( )")
        IN  /\ (braces # 0) <=> (Count(txt, "{") # Count(txt, "}"))
            /\ (brackets # 0) <=> (Count(txt, "[") # Count(txt, "]"))
            /\ (parens # 0) <=> (Count(txt, "(") # Count(txt, ")"))
            /\ (braces # 0 \/ brackets # 0 \/ parens # 0) => ~ res.vr.valid
            /\ (braces # 0 /\ brackets # 0) => braces < brackets
            /\ (brackets # 0 /\ parens # 0) => brackets < parens
            /\ (braces # 0 /\ parens # 0) => braces < parens

\* a text unbalanced in all three pairs was validated
C15_Witness ==
    /\ res.kind = "validation"
    /\ Len(res.vr.errors) = 3
    /\ ~ Balanced(txt)
    /\ Count(txt, "[") # Count(txt, "]") /\ Count(txt, "(") # Count(txt, ")")
    /\ Count(txt, "{") # Count(txt, "}")

----------------------------------------------------------------------------
(* The claim about bump_version, checked under SpecBump.                   *)

\* the number a version text shows at place k (1 major, 2 minor, 3 patch)
NumberAt(version, k) == IntOf(SplitDots(version, <<>>)[k])

\* the fields of a module object other than its version
OtherFields == DOMAIN NoMod \ {"version"}

\* C19: bump_version on a version a.b.c returns and stores (a+1).0.0 for
\* 'major', a.(b+1).0 for 'minor' and a.b.(c+1) for 'patch' and for no part
\* given, and changes no other field of the module object.
C19_BumpVersion ==
    [][\A part \in {"major", "minor", "patch"} :
        (BumpVersion(part) /\ Parses(obj.version)) =>
            LET a == NumberAt(obj.version, 1)
                b == NumberAt(obj.version, 2)
                c == NumberAt(obj.version, 3)
                want == CASE part = "major" -> <<a + 1, 0, 0>>
                          [] part = "minor" -> <<a, b + 1, 0>>
                          [] part = "patch" -> <<a, b, c + 1>>
            IN  /\ Parses(obj'.version)
                /\ \A k \in 1..3 : NumberAt(obj'.version, k) = want[k]
                /\ Len(obj'.version) = 5
                /\ res'.kind = "version" /\ res'.text = obj'.version
                /\ \A f \in OtherFields : obj'[f] = obj[f]]_vars

\* 1.1.1 was bumped to 1.2.0 by a call for 'minor'
C19_Witness ==
    /\ res.kind = "version"
    /\ res.rendered = <<"minor">>
    /\ obj.version = <<"1", ".", "2", ".", "0">>

----------------------------------------------------------------------------
(* The claims about list_modules, search and get_stats and the frame of     *)
(* the stored records, checked under SpecAll.                              *)

\* the members of a sequence
Range(seq) == {seq[i] : i \in DOMAIN seq}

\* a list of modules is in descending download_count, equal counts in
\* ascending name
OrderedByCountThenName(list) ==
    \A i \in 1..(Len(list) - 1) :
        \/ list[i].download_count > list[i + 1].download_count
        \/ /\ list[i].download_count = list[i + 1].download_count
           /\ NameRank(list[i].name) < NameRank(list[i + 1].name)

\* the stored modules a filter pair selects when every filter that is a
\* string counts as given
SelectedGiven(rows, pf, rf) ==
    {RowToModule(r) : r \in {x \in rows :
        /\ pf.t = "str" => x.provider = pf.v
        /\ rf.t = "str" => x.resource_type = rf.v}}

\* the same when only a string that is not empty counts as given
SelectedNonEmpty(rows, pf, rf) ==
    {RowToModule(r) : r \in {x \in rows :
        /\ (pf.t = "str" /\ pf.v # "") => x.provider = pf.v
        /\ (rf.t = "str" /\ rf.v # "") => x.resource_type = rf.v}}

\* C16: list_modules returns exactly the stored modules whose provider equals
\* the provider filter (when given) and whose resource_type equals the
\* resource-type filter (when given), each once, ordered by descending
\* download_count and, among equal counts, by ascending name.
C16_ListModules ==
    [][\A p \in Procs : ListModules(p) =>
        LET list == ret'[p].list
            want == SelectedGiven(db, call'[p].q[1], call'[p].q[2])
        IN  /\ Range(list) = want
            /\ Len(list) = Cardinality(want)
            /\ OrderedByCountThenName(list)]_vars

\* C16 as amended: the same, a filter counting as given when it is a string
\* that is not empty; an empty string selects like no filter.
C16_Amended ==
    [][\A p \in Procs : ListModules(p) =>
        LET list == ret'[p].list
            want == SelectedNonEmpty(db, call'[p].q[1], call'[p].q[2])
        IN  /\ Range(list) = want
            /\ Len(list) = Cardinality(want)
            /\ OrderedByCountThenName(list)]_vars

\* list_modules with the provider filter '' has returned two modules, the
\* first with the higher download_count and the later name
C16_Witness ==
    \E p \in Procs :
        /\ Returned(p, "list_modules", "modules")
        /\ call[p].q[1] = StrFilter("")
        /\ Len(ret[p].list) = 2
        /\ ret[p].list[1].download_count > ret[p].list[2].download_count
        /\ NameRank(ret[p].list[1].name) > NameRank(ret[p].list[2].name)

\* the lower-cased query is a substring of the lower-cased name, description,
\* provider, resource_type or one of the tags of a module
QueryInModule(m, query) ==
    LET q == Lower(query)
    IN  \/ Contains(Lower(Chars(m.name)), q)
        \/ Contains(Lower(m.description), q)
        \/ Contains(Lower(Chars(m.provider)), q)
        \/ Contains(Lower(Chars(m.resource_type)), q)
        \/ \E k \in DOMAIN m.tags : Contains(Lower(m.tags[k]), q)

\* C17: search(query) returns exactly the stored modules for which the
\* lower-cased query is a substring of the lower-cased name, description,
\* provider, resource_type or one of the tags, and no other module, ordered
\* by descending download_count.
C17_Search ==
    [][\A p \in Procs : Search(p) =>
        LET list == ret'[p].list
            want == {m \in {RowToModule(r) : r \in db} :
                        QueryInModule(m, call'[p].q)}
        IN  /\ Range(list) = want
            /\ Len(list) = Cardinality(want)
            /\ \A i \in 1..(Len(list) - 1) :
                    list[i].download_count >= list[i + 1].download_count]_vars

\* the sum of the counts of a set of provider/count pairs
RECURSIVE SumCounts(_)
SumCounts(pairs) ==
    IF pairs = {} THEN 0
    ELSE LET one == CHOOSE x \in pairs : TRUE
         IN  one[2] + SumCounts(pairs \ {one})

\* the smaller of two numbers
Min(a, b) == IF a < b THEN a ELSE b

\* C18: every get_stats result is consistent with one state of the store:
\* the by_provider counts sum to total_modules, and most_downloaded lists
\* min(5, total_modules) modules in non-increasing download_count order.
C18_StatsConsistent ==
    \A p \in Procs :
        Returned(p, "get_stats", "stats") =>
            /\ SumCounts(ret[p].by_provider) = ret[p].total
            /\ Len(ret[p].list) = Min(5, ret[p].total)
            /\ \A i \in 1..(Len(ret[p].list) - 1) :
                    ret[p].list[i].downloads >= ret[p].list[i + 1].downloads

\* the columns of a row other than download_count
FrameFields == DOMAIN ModuleToRow(NoMod) \ {"download_count"}

\* C20: between its registration and its deletion a stored module's record
\* changes only by download_count increments caused by successful renders of
\* that module: every step of every operation leaves the other columns of
\* each row that stays stored as they are, never lowers its download_count,
\* and changes it only in a successful render (generate_tf, also as part of
\* export_plan) of that module, by one.
C20_RecordFrame ==
    [][\A r \in db : \A r2 \in db' :
        r2.id = r.id =>
            /\ \A f \in FrameFields : r2[f] = r[f]
            /\ r2.download_count >= r.download_count
            /\ r2.download_count # r.download_count =>
                    /\ r2.download_count = r.download_count + 1
                    /\ \E p \in Procs :
                        /\ GenerateTfRender(p)
                        /\ mod[p].id = r.id
                        /\ Missing(mod[p].variables, call[p].vars) = <<>>
                        /\ ret'[p].kind \in {"text", "plan"}]_vars

\* a stored module has been rendered to its second download while another
\* module is stored, and its row is otherwise as registered
C20_Witness ==
    \E p \in Procs : \E r \in db :
        /\ Returned(p, "generate_tf", "text")
        /\ r.id = mod[p].id
        /\ r.download_count = 2
        /\ Cardinality(db) = 2
        /\ [r EXCEPT !.download_count = 0]
                = ModuleToRow([StockedSecond EXCEPT !.download_count = 0])

----------------------------------------------------------------------------
(* The claims about what the store may hold.                               *)

\* C21: in every reachable state, within each stored module the variable
\* names are pairwise distinct.
C21_VariableNamesDistinct ==
    \A r \in db :
        LET variables == RowToModule(r).variables
        IN  \A i, j \in DOMAIN variables :
                i # j => variables[i].name # variables[j].name

----------------------------------------------------------------------------
(* The claims about the text of generate_tf, checked under SpecRender.     *)

\* the mapping the caller of the last generate_tf supplied
Supplied == call[CHOOSE p \in Procs : TRUE].vars

\* C22: after a successful generate_tf, the returned text contains no
\* placeholder ${var.n} for any name n that has an entry in the
\* caller-supplied mapping, for every template and every supplied values.
C22_NoPlaceholderLeft ==
    res.kind = "text" =>
        \A n \in DictKeys(Supplied) : ~ Contains(res.text, Placeholder(n))

\* every $ of a text starts a placeholder ${var.k} whose name k holds no $
DollarsStartPlaceholders(s) ==
    \A i \in 1..Len(s) :
        s[i] = "$" =>
            /\ i + 4 <= Len(s)
            /\ s[i + 3] # "$"
            /\ SubSeq(s, i, i + 4) = Placeholder(s[i + 3])

\* no value of the merged table (defaults, then supplied values) has a $ in
\* its text
NoDollarInValues(variables, vm) ==
    \A e \in Range(Merged(variables, vm)) : Count(PyStr(e.val), "$") = 0

\* C22 as amended: the same, for templates in which every $ starts a
\* placeholder ${var.k} (k without $) and values, supplied or default, whose
\* text holds no $.
C22_Amended ==
    (/\ res.kind = "text"
     /\ DollarsStartPlaceholders(obj.hcl_template)
     /\ NoDollarInValues(obj.variables, Supplied)) =>
        \A n \in DictKeys(Supplied) : ~ Contains(res.text, Placeholder(n))

\* generate_tf has returned a text for a template that holds the placeholder
\* of a supplied name twice, with values free of $
C22_Witness ==
    /\ res.kind = "text"
    /\ DollarsStartPlaceholders(obj.hcl_template)
    /\ NoDollarInValues(obj.variables, Supplied)
    /\ \E n \in DictKeys(Supplied) :
        /\ \E i, j \in 1..Len(obj.hcl_template) :
            /\ i # j
            /\ MatchAt(obj.hcl_template, Placeholder(n), i)
            /\ MatchAt(obj.hcl_template, Placeholder(n), j)
        /\ Contains(res.text, PyStr(DictGet(Supplied, n)))

\* the declarations a variable may be given in place of its own
Declarations == {"string", "number"} \X {"d", "e"} \X BOOLEAN

\* the variable lists that differ from a list only in type, description and
\* sensitive flag: one variable redeclared, or all of them alike
Redeclarations(variables) ==
    {[i \in DOMAIN variables |->
        IF i \in at THEN Redeclare(variables[i], d[1], d[2], d[3])
        ELSE variables[i]] :
        d \in Declarations,
        at \in {{i} : i \in DOMAIN variables} \cup {DOMAIN variables}}

\* C23: the outcome of generate_tf (returned text, or the missing-variables
\* failure) does not depend on the variables' sensitive flag, declared type
\* or description: a module that differs only in these fields gives the same
\* outcome for the same supplied values.
C23_DeclarationIndependent ==
    res.kind # "none" =>
        \A other \in Redeclarations(obj.variables) :
            RenderOutcome(
                RowToModule(ModuleToRow([obj EXCEPT !.variables = other])),
                Supplied) = res

\* generate_tf has returned a text, with the default of b in it, for the
\* module whose variables are declared as numbers, a sensitive, and whose
\* template names a and b
C23_Witness ==
    /\ res.kind = "text"
    /\ obj.variables = StoredVariables[VarsABCRedeclared]
    /\ Contains(obj.hcl_template, Placeholder("a"))
    /\ Contains(obj.hcl_template, Placeholder("b"))
    /\ "b" \notin DictKeys(Supplied)
    /\ Contains(res.text, <<"dflt">>)

\* a template with the placeholder of every name of a table replaced by the
\* text of its value, all at once: what is inserted is not read again
RECURSIVE ReplacedAtOnce(_, _, _)
ReplacedAtOnce(tpl, table, i) ==
    IF i > Len(tpl) THEN <<>>
    ELSE IF \E k \in DictKeys(table) : MatchAt(tpl, Placeholder(k), i)
    THEN PyStr(DictGet(table, tpl[i + 3])) \o ReplacedAtOnce(tpl, table, i + 5)
    ELSE <<tpl[i]>> \o ReplacedAtOnce(tpl, table, i + 1)

\* a table with its entries in the opposite order
Reversed(table) == [i \in DOMAIN table |-> table[Len(table) + 1 - i]]

\* C24: the text returned by generate_tf does not depend on the order in
\* which the entries of the merged value table are substituted: it equals
\* the template with all placeholders replaced simultaneously, so text
\* inserted as a value is never itself scanned for placeholders.
C24_OrderIndependent ==
    res.kind = "text" =>
        LET table == Merged(obj.variables, Supplied)
        IN  /\ res.text = ReplacedAtOnce(obj.hcl_template, table, 1)
            /\ res.text = Substitute(obj.hcl_template, Reversed(table))

----------------------------------------------------------------------------
(* The claims about the registry's store and interleaved calls.            *)

\* C25: in every reachable state, every stored module has a provider in
\* {aws, gcp, azure, kubernetes, helm, null} and a template for which
\* validate_hcl returns valid=true.
C25_StoredModulesChecked ==
    \A r \in db :
        /\ RowToModule(r).provider \in ClaimProviders
        /\ validate_hcl(RowToModule(r).hcl_template).valid

\* two modules of different providers are stored and a registration with an
\* unbalanced template has been refused
C25_Witness ==
    /\ \E r1, r2 \in db : r1.provider # r2.provider
    /\ \E p \in Procs :
        /\ Returned(p, "register_module", "ValueError: Invalid HCL template")
        /\ ~ validate_hcl(call[p].args.hcl_template).valid

\* C26: if a generate_tf call returns text for module m, then at the moment
\* it returns m's record is stored and its download_count includes that
\* call's increment, in every interleaving with delete_module calls on m.
C26_RenderedModuleStored ==
    [][\A p \in Procs :
        (/\ GenerateTfRender(p)
         /\ call[p].op = "generate_tf"
         /\ ret'[p].kind = "text") =>
            \E r \in db : \E r2 \in db' :
                /\ r.id = mod[p].id
                /\ r2.id = mod[p].id
                /\ r2.download_count = r.download_count + 1]_vars

\* C27: the header of an export_plan result (module name, version, provider,
\* resource type) and its rendered text come from the same stored module
\* record, in every interleaving with delete_module and register_module
\* calls that remove the module and register another one under the same
\* name. (The reference is a name that is no module's id.)
C27_PlanOfOneRecord ==
    \A p \in Procs :
        (Returned(p, "export_plan", "plan") /\ call[p].ref \in PlainNames) =>
            /\ ret[p].mod.id = mod[p].id
            /\ ret[p].text = Render(ret[p].mod, call[p].vars)

----------------------------------------------------------------------------
\* the rows of a provider in the store
RowsOfProvider(provider) == {r \in db : r.provider = provider}

\* every construction begun has returned
ConstructionsDone == calls > 0 /\ \A p \in Procs : pc[p] = "idle"

\* the store held a module before the first construction
StoreWasStocked == \E r \in db : r.id = IdSeq[1]

\* C28: once the constructions on one store have returned, a store that was
\* empty holds the 8 built-in modules, each name exactly once, 4 of them aws,
\* 2 gcp and 2 kubernetes, whether the constructions were interleaved or not;
\* a store that held a module holds that module and nothing else.
C28_BuiltinsSeeded ==
    ConstructionsDone =>
        IF StoreWasStocked
        THEN Cardinality(db) = 1
        ELSE /\ \A i \in 1..Len(Builtins) :
                    Cardinality({r \in db : r.name = Builtins[i].name}) = 1
             /\ Cardinality(db) = Len(Builtins)
             /\ Cardinality(RowsOfProvider("aws")) = 4
             /\ Cardinality(RowsOfProvider("gcp")) = 2
             /\ Cardinality(RowsOfProvider("kubernetes")) = 2

============================================================================
